---------------------------- MODULE Spec2Model ----------------------------
(***************************************************************************)
(* Chit ledger of the jewellery back end: the chit and chit-payment        *)
(* routes, the Chit / ChitPayment save hooks and validators, the customer  *)
(* aggregate counters the routes maintain, and the sequence generator;     *)
(* with them the order route's chit-settlement payment, the rate board     *)
(* and the products it reprices, and the customer update routes.           *)
(*                                                                         *)
(* Number representation.  Money is a whole number of currency units.      *)
(* A gold weight amount / rate is a rational; it is held exactly as a      *)
(* whole number of 1/WeightUnit grams, WeightUnit being a common multiple  *)
(* of every gold rate a request can carry.  A product weight * rate is     *)
(* therefore held in 1/WeightUnit currency units, and settlementAmount,    *)
(* which can be such a product, is held in that unit throughout.           *)
(*                                                                         *)
(* Optional values (a request field that may be absent, a document path    *)
(* that may be undefined) are the empty set or a one-element set.          *)
(*                                                                         *)
(* Customer counters: the routes address chitDetails.* paths with $inc;    *)
(* the update documents are applied as the routes write them.              *)
(***************************************************************************)
EXTENDS Integers, Naturals, Sequences, FiniteSets, TLC

\* ------------------------------------------------------------------ bounds
MaxChits == 1          \* chits ever created (ids are never reused)
MaxPayments == 2       \* ChitPayment documents held at one time
MaxSeq == 2            \* highest value a sequence counter is driven to
MaxCount == 1          \* cap on the magnitude of a customer counter

\* ------------------------------------------------------- optional values
None == {}
Some(v) == {v}
IsSome(o) == o # {}
Get(o) == CHOOSE v \in o : TRUE
\* JavaScript truthiness of an optional number: undefined and 0 are falsy
Truthy(o) == IsSome(o) /\ o # Some(0)

\* ------------------------------------------------------------ input sets
CustomerIds == {"cust1"}
\* a customer who opens no chit
OtherCustomerIds == {"cust2"}
\* the name and the phone number each customer was registered with
FirstName == [c \in CustomerIds \cup OtherCustomerIds |-> IF c = "cust1" THEN "Asha" ELSE "Ravi"]
FirstPhone == [c \in CustomerIds \cup OtherCustomerIds |-> IF c = "cust1" THEN <<"9", "8">> ELSE <<"7">>]
Statuses == {"active", "completed", "defaulted", "cancelled", "settled"}
\* the gold rates requests carry; weights are held in 1/WeightUnit grams,
\* WeightUnit being the least number every rate divides
GoldRates == {1, 2}
WeightUnit ==
  CHOOSE u \in 1..4 : /\ \A r \in GoldRates : u % r = 0
                      /\ \A v \in 1..(u - 1) : \E r \in GoldRates : v % r # 0
ChitAmounts == {0, 3}

InstallmentCounts == {1, 2}
Years == {2025, 2026}

\* --------------------------------------------------------------- calendar
\* A date is [m |-> months since January of the first year, d |-> day].
\* Only the month and the day of month matter to the routes.
MonthLen(m) ==
  LET k == m % 12 IN
    IF k = 1 THEN 28
    ELSE IF k \in {3, 5, 8, 10} THEN 30 ELSE 31
\* 31 January: the month after is shorter.  31 July: the month after has a
\* 31st and the one after that has not.
StartDates == {[m |-> 0, d |-> 31], [m |-> 6, d |-> 31]}
Today == [m |-> 0, d |-> 20]
SuppliedDate == [m |-> 5, d |-> 1]

\* d.setMonth(d.getMonth() + 1): the month is advanced and the day of month
\* kept; a day past the end of the new month overflows into the month after.
SetMonthPlusOne(date) ==
  IF date.d <= MonthLen(date.m + 1)
    THEN [m |-> date.m + 1, d |-> date.d]
    ELSE [m |-> date.m + 2, d |-> date.d - MonthLen(date.m + 1)]

\* ------------------------------------------------------------- arithmetic
\* Math.round(a / b) for a >= 0, b > 0: halves round up.
MathRoundDiv(a, b) == (2 * a + b) \div (2 * b)

\* amount * currentGoldRate: the operands of the division multiplied instead
GoldWeightTimes(amount, rate) == amount * WeightUnit * rate
\* amount / currentGoldRate, in 1/WeightUnit grams
GoldWeight(amount, rate) == (amount * WeightUnit) \div rate

\* a whole currency amount in 1/WeightUnit currency units
Money(a) == a * WeightUnit

RECURSIVE SumWeights(_)
SumWeights(h) ==
  IF h = <<>> THEN 0 ELSE h[1].goldWeight + SumWeights(Tail(h))

\* ------------------------------------------------------ formatted numbers
DigitChar(d) == <<"0", "1", "2", "3", "4", "5", "6", "7", "8", "9">>[d + 1]
RECURSIVE ToDigits(_)
\* String(n) for n >= 0, as a sequence of characters
ToDigits(n) ==
  IF n < 10 THEN <<DigitChar(n)>>
  ELSE ToDigits(n \div 10) \o <<DigitChar(n % 10)>>
\* s.padStart(w, '0')
PadStart(s, w) ==
  IF Len(s) >= w THEN s ELSE [i \in 1..(w - Len(s)) |-> "0"] \o s
ChitSerialWidth == 4
ReceiptSerialWidth == 6
FormatChitNumber(year, seq) ==
  <<"C", "H", "I", "T">> \o ToDigits(year) \o PadStart(ToDigits(seq), ChitSerialWidth)
FormatReceiptNumber(year, seq) ==
  <<"R", "C">> \o ToDigits(year) \o PadStart(ToDigits(seq), ReceiptSerialWidth)

\* ------------------------------------------------------------------ state
VARIABLES
  chits,      \* Chit collection: chit id -> document
  payments,   \* ChitPayment collection: set of documents
  customers,  \* Customer collection: customer id -> chit flag and counters
  counters,   \* Counter collection: counter name -> value
  rates,      \* Rate collection: set of documents
  orders,     \* Order collection: set of documents
  products,   \* Product collection: sku -> document
  created,    \* number of Chit documents ever inserted (the next fresh _id)
  year,       \* new Date().getFullYear()
  gpc,        \* sequence-generator callers: where each caller is
  gval,       \* sequence-generator callers: the call in progress
  issued,     \* the numbers the sequence-generator callers were handed
  ppc,        \* concurrent chit requests: where each request is
  pval        \* concurrent chit requests: the handler's local variables

vars == <<chits, payments, customers, counters, rates, orders, products, created, year,
          gpc, gval, issued, ppc, pval>>

ChitIds == 1..MaxChits
Callers == {"a", "b"}

\* Rate.findOne({ metal: 'gold', purity: '22K' }): the price of the document
\* found, if there is one
rate22K ==
  LET found == {r \in rates : r.metal = "gold" /\ r.purity = Some("22K")} IN
  IF found = {} THEN None ELSE Some((CHOOSE r \in found : TRUE).price)

\* ------------------------------------------------------ Customer counters
\* The chit routes address the customer paths chitCustomer and
\* chitDetails.* in their updates.  The Customer schema among the sources
\* declares neither path, so the counter paths are taken from the updates
\* that name them, each starting at 0, and every update is applied to the
\* customer document as the route wrote it.
ZeroDetails ==
  [totalChits |-> 0, activeChits |-> 0, completedChits |-> 0,
   defaultedChits |-> 0, settledChits |-> 0, totalInvestment |-> 0,
   totalPaid |-> 0, totalGoldWeight |-> 0, totalInstallmentsPaid |-> 0,
   cashSettlements |-> 0, goldSettlements |-> 0, purchaseSettlements |-> 0]

\* { $inc: inc } applied to a chitDetails sub-document
ApplyInc(details, inc) ==
  [f \in DOMAIN details |->
     details[f] + (IF f \in DOMAIN inc THEN inc[f] ELSE 0)]

\* updateCustomerChitStats(customerId, { $inc: inc }): Customer.findByIdAndUpdate;
\* a missing customer or a failed update is swallowed
UpdateCustomerChitStats(custs, customerId, inc) ==
  IF customerId \in DOMAIN custs
    THEN [custs EXCEPT ![customerId].chitDetails = ApplyInc(@, inc)]
    ELSE custs

\* --------------------------------------------------------------- counters
CounterValue(name) == IF name \in DOMAIN counters THEN counters[name] ELSE 0
\* an update that writes the value back unchanged
SetValue(v) == v
\* the update operator of findOneAndUpdate: { $inc: { value: 1 } }
IncValue(v) == v + 1
\* an update that leaves the named counter as the only one
CountersAfterAlone(name) == name :> IncValue(CounterValue(name))
\* Counter.findOneAndUpdate({name}, {$inc: {value: 1}}, {new: true, upsert: true})
\* run to completion: the Counter collection after it
CountersAfter(name) ==
  IF name \in DOMAIN counters
    THEN [counters EXCEPT ![name] = IncValue(@)]
    ELSE (name :> IncValue(0)) @@ counters
ChitCounterName(yr) == <<"chit", yr>>
ReceiptCounterName(yr) == <<"receipt", yr>>

\* ------------------------------------------------------------ Chit model
\* Paths of the Chit document that no route reads back in a condition are
\* left out: endDate, paymentMethod, notes, agentName, the timestamps,
\* accumulatedGold.weightPerInstallment / purity / lastUpdated.  A phone
\* number is a sequence of characters.
SettlementTypes ==
  {"cash", "gold", "partial_gold", "purchase_settlement", "chit_settlement"}

\* the schema's validators; Mongoose runs them before the pre('save') hook
ChitValid(doc) ==
  /\ doc.chitAmount >= 0
  /\ doc.installmentAmount >= 0
  /\ doc.totalInstallments >= 1
  /\ doc.paidInstallments >= 0
  /\ doc.remainingInstallments >= 0
  /\ doc.status \in Statuses
  /\ \A t \in doc.settlementType : t \in SettlementTypes
  /\ \A a \in doc.settlementAmount : a >= 0
  /\ \A r \in doc.settlementGoldRate : r >= 0

\* the hook with the subtraction of paidInstallments forgotten
ChitPreSaveRemainingTotal(doc) ==
  [doc EXCEPT
     !.remainingInstallments = doc.totalInstallments,
     !.status = IF doc.status = "active"
                   /\ doc.paidInstallments >= doc.totalInstallments
                  THEN "completed" ELSE @]
\* chitSchema.pre('save')
ChitPreSaveAutoDefault(doc) ==
  [doc EXCEPT
     !.remainingInstallments = doc.totalInstallments - doc.paidInstallments,
     !.status = IF @ = "active" /\ doc.paidInstallments >= doc.totalInstallments
                  THEN "completed"
                ELSE IF @ = "active" /\ doc.paymentHistory # << >>
                  THEN "defaulted"
                ELSE @,
     !.settlementStatus =
        IF Truthy(doc.settlementAmount) /\ Get(doc.settlementAmount) > 0
           /\ doc.settlementStatus = None
          THEN Some("completed") ELSE @]
ChitPreSave(doc) ==
  [doc EXCEPT
     !.remainingInstallments = doc.totalInstallments - doc.paidInstallments,
     !.status = IF doc.status = "active"
                   /\ doc.paidInstallments >= doc.totalInstallments
                  THEN "completed" ELSE @,
     !.settlementStatus =
        IF Truthy(doc.settlementAmount) /\ Get(doc.settlementAmount) > 0
           /\ doc.settlementStatus = None
          THEN Some("completed") ELSE @]

\* new Chit({...}) as POST /chits builds it
NewChit(customerId, customerName, customerPhone, chitNumber, start, chitAmount, totalInstallments, goldRate) ==
  [customerId |-> customerId,
   customerName |-> customerName,
   customerPhone |-> customerPhone,
   chitNumber |-> chitNumber,
   startDate |-> start,
   chitAmount |-> chitAmount,
   installmentAmount |-> MathRoundDiv(chitAmount, totalInstallments),
   totalInstallments |-> totalInstallments,
   paidInstallments |-> 0,
   remainingInstallments |-> totalInstallments,
   nextDueDate |-> SetMonthPlusOne(start),
   status |-> "active",
   totalWeight |-> 0,
   currentGoldRate |-> goldRate,
   paymentHistory |-> <<>>,
   settlementType |-> None,
   settlementAmount |-> None,
   settlementDate |-> None,
   settlementGoldRate |-> None,
   settlementStatus |-> Some("pending"),
   purchaseInvoiceNumber |-> None]

DefaultGoldRate == 5000

\* virtual('totalPaid'); the summary statistics and the delete reversal
\* multiply the same two paths
TotalPaid(chit) == chit.paidInstallments * chit.installmentAmount

\* ------------------------------------------------------------ POST /chits
\* The chit number the route generates and the document it builds.
\* clientInstallmentAmount is a body field; the route never reads it.  The
\* clients fill customerName and customerPhone from the customer's record.
CreateChitNumber ==
  FormatChitNumber(year, CountersAfter(ChitCounterName(year))[ChitCounterName(year)])
CreateDoc(customerId, customerName, customerPhone, start, chitAmount, totalInstallments) ==
  NewChit(customerId, customerName, customerPhone, CreateChitNumber, start, chitAmount,
          totalInstallments,
          IF IsSome(rate22K) THEN Get(rate22K) ELSE DefaultGoldRate)
\* where the route ends
CreateOutcome(customerId, customerName, customerPhone, start, chitAmount, totalInstallments) ==
  IF customerName = "" \/ customerPhone = << >> \/ chitAmount = 0 \/ totalInstallments = 0
    THEN "missingFields"
  ELSE IF start = None THEN "validationError"       \* startDate is required
  ELSE IF ~ChitValid(CreateDoc(customerId, customerName, customerPhone, Get(start),
                               chitAmount, totalInstallments))
    THEN "validationError"
  ELSE IF \E c \in DOMAIN chits : chits[c].chitNumber = CreateChitNumber
    THEN "duplicateKey"
  ELSE "ok"
CreateCode(outcome) == IF outcome = "ok" THEN 200 ELSE 400

CreateChit(customerId, customerName, customerPhone, start, chitAmount, totalInstallments, clientInstallmentAmount) ==
  LET outcome == CreateOutcome(customerId, customerName, customerPhone, start, chitAmount,
                               totalInstallments)
      id == created + 1
  IN
  /\ created < MaxChits
  /\ CounterValue(ChitCounterName(year)) < MaxSeq
  /\ counters' = IF outcome = "missingFields"
                   THEN counters ELSE CountersAfter(ChitCounterName(year))
  /\ IF outcome = "ok"
       THEN /\ chits' = (id :> ChitPreSave(CreateDoc(customerId, customerName, customerPhone,
                                                     Get(start), chitAmount,
                                                     totalInstallments))) @@ chits
            /\ created' = id
            /\ customers' =
                 UpdateCustomerChitStats(
                   [customers EXCEPT ![customerId].chitCustomer = TRUE],
                   customerId,
                   [totalChits |-> 1, activeChits |-> 1, totalInvestment |-> chitAmount])
       ELSE UNCHANGED <<chits, created, customers>>
  /\ UNCHANGED <<ppc, pval, payments, rates, orders, products, year, gpc, gval, issued>>

\* ----------------------------------------------------- ChitPayment model
\* Left out, as for Chit: chitNumber, customerName, paymentDate,
\* paymentMethod, notes, collectedBy, paymentStatus, calculatedValue.
NewChitPayment(chitId, customerId, installmentNumber, amount, goldRate, goldWeight, receiptNumber) ==
  [chitId |-> chitId,
   customerId |-> customerId,
   installmentNumber |-> installmentNumber,
   amount |-> amount,
   goldRate |-> goldRate,
   goldWeight |-> goldWeight,
   receiptNumber |-> receiptNumber]

\* the schema's validators
ChitPaymentValid(p) ==
  /\ p.installmentNumber >= 1
  /\ p.amount >= 0
  /\ p.goldRate >= 0
  /\ p.goldWeight >= 0

\* chitPaymentSchema.pre('save'): TRUE when the hook passes an Error to next
ChitPaymentPreSaveFails(p) == p.goldRate <= 0
\* chitPaymentSchema.pre('save'): the document it leaves
ChitPaymentPreSave(p) ==
  IF p.amount > 0
    THEN [p EXCEPT !.goldWeight = GoldWeight(p.amount, p.goldRate)]
    ELSE p
\* the insert under the unique index on receiptNumber
ReceiptTaken(receiptNumber) == \E q \in payments : q.receiptNumber = receiptNumber

\* ----------------------------------------------- POST /chits/:id/payment
\* `installmentNumber && installmentNumber !== expectedInstallmentNumber`
InstallmentMismatch(installmentNumber, expected) ==
  Truthy(installmentNumber) /\ Get(installmentNumber) # expected

\* receiptNumber || await generateReceiptNumber()
PaymentReceipt(receiptNumber) ==
  IF IsSome(receiptNumber)
    THEN Get(receiptNumber)
    ELSE FormatReceiptNumber(year,
           CountersAfter(ReceiptCounterName(year))[ReceiptCounterName(year)])

\* new ChitPayment({...}) as the route builds it
PaymentDoc(id, amount, rate, receiptNumber) ==
  NewChitPayment(id, chits[id].customerId, chits[id].paidInstallments + 1, amount,
                 rate, GoldWeight(amount, rate), PaymentReceipt(receiptNumber))

ChitAfterPaymentCompleted(chit, amount, rate, goldWeight, receiptNum) ==
  [chit EXCEPT
     !.paidInstallments = @ + 1,
     !.remainingInstallments = chit.totalInstallments - (chit.paidInstallments + 1),
     !.totalWeight = @ + goldWeight,
     !.currentGoldRate = rate,
     !.paymentHistory =
        Append(@, [installmentNumber |-> chit.paidInstallments + 1, amount |-> amount,
                   goldRate |-> rate, goldWeight |-> goldWeight,
                   receiptNumber |-> receiptNum]),
     !.nextDueDate = SetMonthPlusOne(@),
     !.status = "completed"]
\* the chit document as the route has changed it when it calls chit.save()
ChitAfterPayment(chit, amount, rate, goldWeight, receiptNum) ==
  LET n == chit.paidInstallments + 1
      c1 == [chit EXCEPT
               !.paidInstallments = n,
               !.remainingInstallments = chit.totalInstallments - n,
               !.totalWeight = @ + goldWeight,
               !.currentGoldRate = rate,
               !.paymentHistory =
                  Append(@, [installmentNumber |-> n, amount |-> amount,
                             goldRate |-> rate, goldWeight |-> goldWeight,
                             receiptNumber |-> receiptNum]),
               !.nextDueDate = SetMonthPlusOne(@)]
  IN IF c1.paidInstallments >= c1.totalInstallments
       THEN [c1 EXCEPT !.status = "completed"]
       ELSE c1
PaymentChit(id, amount, rate, receiptNumber) ==
  ChitAfterPayment(chits[id], amount, rate, GoldWeight(amount, rate),
                   PaymentReceipt(receiptNumber))

\* the $inc the route sends to the customer, before chit.save()
PaymentCustomerInc(chitAfter, amount, goldWeight) ==
  IF chitAfter.paidInstallments >= chitAfter.totalInstallments
    THEN [completedChits |-> 1, activeChits |-> 0 - 1,
          totalGoldWeight |-> chitAfter.totalWeight]
    ELSE [totalPaid |-> amount, totalGoldWeight |-> goldWeight,
          totalInstallmentsPaid |-> 1]

\* where the route ends
PaymentOutcome(id, installmentNumber, amount, rate, receiptNumber) ==
  IF id \notin DOMAIN chits THEN "notFound"
  ELSE IF chits[id].status # "active" THEN "notActive"
  ELSE IF ~Truthy(rate) \/ Get(rate) <= 0 THEN "rateRequired"
  ELSE IF InstallmentMismatch(installmentNumber, chits[id].paidInstallments + 1)
    THEN "installmentMismatch"
  ELSE IF ~ChitPaymentValid(PaymentDoc(id, amount, Get(rate), receiptNumber))
          \/ ChitPaymentPreSaveFails(PaymentDoc(id, amount, Get(rate), receiptNumber))
          \/ ReceiptTaken(PaymentReceipt(receiptNumber))
    THEN "paymentSaveFailed"
  ELSE IF ~ChitValid(PaymentChit(id, amount, Get(rate), receiptNumber))
    THEN "chitSaveFailed"
  ELSE "ok"
\* the catch block answers every exception with 500
PaymentCode(outcome) ==
  IF outcome = "ok" THEN 200
  ELSE IF outcome = "notFound" THEN 404
  ELSE IF outcome \in {"paymentSaveFailed", "chitSaveFailed"} THEN 500
  ELSE 400

RecordPayment(id, installmentNumber, amount, rate, receiptNumber) ==
  LET outcome == PaymentOutcome(id, installmentNumber, amount, rate, receiptNumber)
      reached == outcome \in {"paymentSaveFailed", "chitSaveFailed", "ok"}
      inserted == outcome \in {"chitSaveFailed", "ok"}
  IN
  /\ (reached /\ receiptNumber = None)
        => CounterValue(ReceiptCounterName(year)) < MaxSeq
  /\ inserted => Cardinality(payments) < MaxPayments
  /\ counters' = IF reached /\ receiptNumber = None
                   THEN CountersAfter(ReceiptCounterName(year)) ELSE counters
  /\ payments' = IF inserted
                   THEN payments \cup
                          {ChitPaymentPreSave(PaymentDoc(id, amount, Get(rate),
                                                         receiptNumber))}
                   ELSE payments
  /\ customers' = IF inserted
                    THEN UpdateCustomerChitStats(customers, chits[id].customerId,
                           PaymentCustomerInc(
                             PaymentChit(id, amount, Get(rate), receiptNumber),
                             amount, GoldWeight(amount, Get(rate))))
                    ELSE customers
  /\ chits' = IF outcome = "ok"
                THEN [chits EXCEPT
                        ![id] = ChitPreSave(PaymentChit(id, amount, Get(rate),
                                                        receiptNumber))]
                ELSE chits
  /\ UNCHANGED <<ppc, pval, rates, orders, products, year, created, gpc, gval, issued>>

\* --------------------------------------------------- POST /chit-payments
\* The direct endpoint: it checks that the chit exists and inserts the
\* payment; it reads chit.paidInstallments and writes nothing to the chit.
\* random is the receipt number it makes up when the body carries none.
DirectDoc(id, amount, rate, receiptNumber, random) ==
  NewChitPayment(id, chits[id].customerId, chits[id].paidInstallments + 1, amount,
                 rate, GoldWeight(amount, rate),
                 IF IsSome(receiptNumber) THEN Get(receiptNumber) ELSE random)
DirectOutcome(id, amount, rate, receiptNumber, random) ==
  IF amount = 0 \/ ~Truthy(rate) THEN "missingFields"
  ELSE IF Get(rate) <= 0 THEN "rateRequired"
  ELSE IF id \notin DOMAIN chits THEN "notFound"
  ELSE IF ~ChitPaymentValid(DirectDoc(id, amount, Get(rate), receiptNumber, random))
    THEN "validationError"
  ELSE IF ReceiptTaken(DirectDoc(id, amount, Get(rate), receiptNumber, random).receiptNumber)
    THEN "duplicateKey"
  ELSE "ok"
DirectCode(outcome) ==
  IF outcome = "ok" THEN 200 ELSE IF outcome = "notFound" THEN 404 ELSE 400

RecordPaymentDirect(id, amount, rate, receiptNumber, random) ==
  LET outcome == DirectOutcome(id, amount, rate, receiptNumber, random) IN
  /\ outcome = "ok" => Cardinality(payments) < MaxPayments
  /\ payments' = IF outcome = "ok"
                   THEN payments \cup
                          {ChitPaymentPreSave(DirectDoc(id, amount, Get(rate),
                                                        receiptNumber, random))}
                   ELSE payments
  /\ UNCHANGED <<ppc, pval, chits, customers, counters, rates, orders, products, year, created, gpc,
                 gval, issued>>

\* --------------------------------------------------------- PUT /chits/:id
\* Chit.findByIdAndUpdate(id, {$set: updates}, {new: true, runValidators: true}).
\* An update document is a record of optional paths; the ones modelled are
\* status, totalInstallments and paidInstallments.  No save hook runs.
UpdateDoc(status, total, paid) ==
  [status |-> status, totalInstallments |-> total, paidInstallments |-> paid]
\* the update validators of the paths in $set
UpdateValid(u) ==
  /\ \A st \in u.status : st \in Statuses
  /\ \A n \in u.totalInstallments : n >= 1
  /\ \A n \in u.paidInstallments : n >= 0
ApplySet(doc, u) ==
  [doc EXCEPT
     !.status = IF IsSome(u.status) THEN Get(u.status) ELSE @,
     !.totalInstallments =
        IF IsSome(u.totalInstallments) THEN Get(u.totalInstallments) ELSE @,
     !.paidInstallments =
        IF IsSome(u.paidInstallments) THEN Get(u.paidInstallments) ELSE @]
UpdateOutcome(id, u) ==
  IF ~UpdateValid(u) THEN "validationError"
  ELSE IF id \notin DOMAIN chits THEN "notFound"
  ELSE "ok"
UpdateCode(outcome) ==
  IF outcome = "ok" THEN 200 ELSE IF outcome = "notFound" THEN 404 ELSE 500
UpdateChit(id, u) ==
  /\ chits' = IF UpdateOutcome(id, u) = "ok"
                THEN [chits EXCEPT ![id] = ApplySet(@, u)] ELSE chits
  /\ UNCHANGED <<ppc, pval, payments, customers, counters, rates, orders, products, year, created, gpc, gval,
                 issued>>

\* ------------------------------------------------ PATCH /chits/:id/status
\* The route compares the requested status with chit.status of the document
\* findByIdAndUpdate returns under {new: true}: the document after the $set.
StatusCustomerInc(status, returned) ==
  IF status = "active" /\ returned.status # "active"
    THEN [activeChits |-> 1,
          completedChits |-> IF returned.status = "completed" THEN 0 - 1 ELSE 0,
          defaultedChits |-> IF returned.status = "defaulted" THEN 0 - 1 ELSE 0,
          settledChits |-> IF returned.status = "settled" THEN 0 - 1 ELSE 0]
  ELSE IF status = "completed" /\ returned.status = "active"
    THEN [completedChits |-> 1, activeChits |-> 0 - 1]
  ELSE IF status = "defaulted" /\ returned.status = "active"
    THEN [defaultedChits |-> 1, activeChits |-> 0 - 1]
  ELSE IF status = "settled" /\ returned.status = "completed"
    THEN [settledChits |-> 1, completedChits |-> 0 - 1]
  ELSE << >>
StatusOutcome(id, status) ==
  IF status \notin Statuses THEN "invalidStatus"
  ELSE IF id \notin DOMAIN chits THEN "notFound"
  ELSE "ok"
StatusCode(outcome) ==
  IF outcome = "ok" THEN 200 ELSE IF outcome = "notFound" THEN 404 ELSE 400
UpdateStatus(id, status) ==
  /\ IF StatusOutcome(id, status) = "ok"
       THEN LET returned == [chits[id] EXCEPT !.status = status] IN
            /\ chits' = [chits EXCEPT ![id] = returned]
            /\ customers' = UpdateCustomerChitStats(customers, returned.customerId,
                                                    StatusCustomerInc(status, returned))
       ELSE UNCHANGED <<chits, customers>>
  /\ UNCHANGED <<ppc, pval, payments, counters, rates, orders, products, year, created, gpc, gval, issued>>

\* ------------------------------------------------------ DELETE /chits/:id
DeleteCustomerInc(chit) ==
  [totalChits |-> 0 - 1,
   activeChits |-> IF chit.status = "active" THEN 0 - 1 ELSE 0,
   completedChits |-> IF chit.status = "completed" THEN 0 - 1 ELSE 0,
   defaultedChits |-> IF chit.status = "defaulted" THEN 0 - 1 ELSE 0,
   settledChits |-> IF chit.status = "settled" THEN 0 - 1 ELSE 0,
   totalInvestment |-> 0 - chit.chitAmount,
   totalPaid |-> 0 - (chit.paidInstallments * chit.installmentAmount),
   totalGoldWeight |-> 0 - chit.totalWeight]
DeleteOutcome(id) == IF id \notin DOMAIN chits THEN "notFound" ELSE "ok"
DeleteCode(outcome) == IF outcome = "ok" THEN 200 ELSE 404
DeleteChit(id) ==
  /\ IF DeleteOutcome(id) = "ok"
       THEN /\ payments' = {p \in payments : p.chitId # id}
            /\ customers' = UpdateCustomerChitStats(customers, chits[id].customerId,
                                                    DeleteCustomerInc(chits[id]))
            /\ chits' = [c \in DOMAIN chits \ {id} |-> chits[c]]
       ELSE UNCHANGED <<chits, payments, customers>>
  /\ UNCHANGED <<ppc, pval, counters, rates, orders, products, year, created, gpc, gval, issued>>

\* ------------------------------------------------- POST /chits/:id/settle
IsGoldType(t) == t \in {"gold", "partial_gold"}
\* finalSettlementAmount, in 1/WeightUnit currency units
FinalSettlementAmount(chit, settlementType, settlementAmount, settlementGoldRate) ==
  IF IsGoldType(settlementType) /\ Truthy(settlementGoldRate) /\ chit.totalWeight # 0
    THEN chit.totalWeight * Get(settlementGoldRate)
    ELSE Money(settlementAmount)
SettleCustomerIncNoCompleted(settlementType) ==
  [settledChits |-> 1,
   cashSettlements |-> IF settlementType = "cash" THEN 1 ELSE 0,
   goldSettlements |-> IF IsGoldType(settlementType) THEN 1 ELSE 0,
   purchaseSettlements |->
     IF settlementType \in {"purchase_settlement", "chit_settlement"} THEN 1 ELSE 0]
SettleCustomerInc(settlementType) ==
  [settledChits |-> 1, completedChits |-> 0 - 1,
   cashSettlements |-> IF settlementType = "cash" THEN 1 ELSE 0,
   goldSettlements |-> IF IsGoldType(settlementType) THEN 1 ELSE 0,
   purchaseSettlements |->
     IF settlementType \in {"purchase_settlement", "chit_settlement"} THEN 1 ELSE 0]
\* the chit as the route has changed it when it calls chit.save();
\* amountField is the body's settlementAmount, 0 when the body has none
SettleDoc(chit, settlementType, amountField, settlementDate, settlementGoldRate) ==
  [chit EXCEPT
     !.settlementType = Some(settlementType),
     !.settlementAmount =
        Some(FinalSettlementAmount(chit, settlementType,
                                   IF IsSome(amountField) THEN Get(amountField) ELSE 0,
                                   settlementGoldRate)),
     !.settlementDate = IF IsSome(settlementDate) THEN settlementDate ELSE Some(Today),
     !.settlementGoldRate = settlementGoldRate,
     !.settlementStatus = Some("completed"),
     !.status = "settled"]
SettleOutcomeAnyStatus(id, settlementType, amountField, settlementDate, settlementGoldRate) ==
  IF id \notin DOMAIN chits THEN "notFound"
  ELSE IF IsGoldType(settlementType) /\ ~Truthy(settlementGoldRate) THEN "rateRequired"
  ELSE IF ~ChitValid(SettleDoc(chits[id], settlementType, amountField, settlementDate,
                               settlementGoldRate))
    THEN "saveFailed"
  ELSE "ok"
SettleOutcome(id, settlementType, amountField, settlementDate, settlementGoldRate) ==
  IF id \notin DOMAIN chits THEN "notFound"
  ELSE IF chits[id].status # "completed" THEN "notCompleted"
  ELSE IF IsGoldType(settlementType) /\ ~Truthy(settlementGoldRate) THEN "rateRequired"
  ELSE IF ~ChitValid(SettleDoc(chits[id], settlementType, amountField, settlementDate,
                               settlementGoldRate))
    THEN "saveFailed"
  ELSE "ok"
SettleCode(outcome) ==
  IF outcome = "ok" THEN 200
  ELSE IF outcome = "notFound" THEN 404
  ELSE IF outcome = "saveFailed" THEN 500
  ELSE 400
SettleChit(id, settlementType, amountField, settlementDate, settlementGoldRate) ==
  /\ IF SettleOutcome(id, settlementType, amountField, settlementDate,
                      settlementGoldRate) = "ok"
       THEN /\ customers[chits[id].customerId].chitDetails.settledChits < MaxCount
            /\ chits' = [chits EXCEPT
                           ![id] = ChitPreSave(SettleDoc(@, settlementType, amountField,
                                                         settlementDate,
                                                         settlementGoldRate))]
            /\ customers' = UpdateCustomerChitStats(customers, chits[id].customerId,
                                                    SettleCustomerInc(settlementType))
       ELSE UNCHANGED <<chits, customers>>
  /\ UNCHANGED <<ppc, pval, payments, counters, rates, orders, products, year, created, gpc, gval, issued>>

\* ---------------------------------------- POST /chits/:id/settle-purchase
PurchaseDoc(chit, purchaseAmount, invoiceNumber, settlementDate, settlementGoldRate) ==
  [chit EXCEPT
     !.settlementType = Some("purchase_settlement"),
     !.settlementAmount =
        IF IsSome(purchaseAmount) THEN Some(Money(Get(purchaseAmount))) ELSE None,
     !.settlementDate = IF IsSome(settlementDate) THEN settlementDate ELSE Some(Today),
     !.settlementGoldRate = settlementGoldRate,
     !.purchaseInvoiceNumber = invoiceNumber,
     !.status = "settled",
     !.settlementStatus = Some("completed")]
PurchaseOutcome(id, purchaseAmount, invoiceNumber, settlementDate, settlementGoldRate) ==
  IF id \notin DOMAIN chits THEN "notFound"
  ELSE IF chits[id].status # "completed" THEN "notCompleted"
  ELSE IF ~ChitValid(PurchaseDoc(chits[id], purchaseAmount, invoiceNumber,
                                 settlementDate, settlementGoldRate))
    THEN "saveFailed"
  ELSE "ok"
PurchaseCode(outcome) ==
  IF outcome = "ok" THEN 200
  ELSE IF outcome = "notFound" THEN 404
  ELSE IF outcome = "saveFailed" THEN 500
  ELSE 400
SettlePurchase(id, purchaseAmount, invoiceNumber, settlementDate, settlementGoldRate) ==
  /\ IF PurchaseOutcome(id, purchaseAmount, invoiceNumber, settlementDate,
                        settlementGoldRate) = "ok"
       THEN /\ customers[chits[id].customerId].chitDetails.settledChits < MaxCount
            /\ chits' = [chits EXCEPT
                           ![id] = ChitPreSave(PurchaseDoc(@, purchaseAmount,
                                                           invoiceNumber, settlementDate,
                                                           settlementGoldRate))]
            /\ customers' = UpdateCustomerChitStats(customers, chits[id].customerId,
                              [settledChits |-> 1, completedChits |-> 0 - 1,
                               purchaseSettlements |-> 1])
       ELSE UNCHANGED <<chits, customers>>
  /\ UNCHANGED <<ppc, pval, payments, counters, rates, orders, products, year, created, gpc, gval, issued>>

\* ------------------------------------------------------ sequence generator
\* Concurrent callers of getNextSequence / getNextFormattedNumber.  The
\* findOneAndUpdate on an existing counter document is one atomic step.  With
\* upsert on a missing document the server finds nothing and then inserts;
\* when another caller's insert wins, the unique index on name rejects the
\* insert and the server either retries as an update or reports the error.
GenKinds == {"receipt", "ORD"}
GenCounterName(kind, yr) ==
  IF kind \in {"chit", "receipt"} THEN <<kind, yr>> ELSE <<kind>>
FormatOrderNumber(prefix, separator, yr, seq) ==
  <<prefix, separator>> \o ToDigits(yr) \o <<separator>>
    \o PadStart(ToDigits(seq), ChitSerialWidth)
GenFormatted(kind, yr, seq) ==
  IF kind = "receipt" THEN FormatReceiptNumber(yr, seq)
  ELSE IF kind = "chit" THEN FormatChitNumber(yr, seq)
  ELSE FormatOrderNumber(kind, IF kind = "ORD" THEN "-" ELSE "/", yr, seq)

GenIdle == [pc |-> "idle"]
GenCall(p, kind) ==
  LET name == GenCounterName(kind, year) IN
  /\ gpc[p] = "idle"
  /\ CounterValue(name) < MaxSeq
  /\ IF name \in DOMAIN counters
       THEN /\ counters' = CountersAfter(name)
            /\ gpc' = [gpc EXCEPT ![p] = "got"]
            /\ gval' = [gval EXCEPT ![p] = [kind |-> kind, name |-> name, yr |-> year,
                                            value |-> counters'[name]]]
       ELSE /\ gpc' = [gpc EXCEPT ![p] = "upsert"]
            /\ gval' = [gval EXCEPT ![p] = [kind |-> kind, name |-> name, yr |-> year,
                                            value |-> 0]]
            /\ UNCHANGED counters
  /\ UNCHANGED <<ppc, pval, chits, payments, customers, rates, orders, products, created, year, issued>>

\* the insert half of an upsert that found no document
GenUpsert(p) ==
  /\ gpc[p] = "upsert"
  /\ \/ /\ counters' = CountersAfter(gval[p].name)
        /\ gpc' = [gpc EXCEPT ![p] = "got"]
        /\ gval' = [gval EXCEPT ![p].value = counters'[gval[p].name]]
     \/ /\ gval[p].name \in DOMAIN counters
        /\ gpc' = [gpc EXCEPT ![p] = "idle"]     \* E11000 reported to the caller
        /\ UNCHANGED <<counters, gval>>
  /\ UNCHANGED <<ppc, pval, chits, payments, customers, rates, orders, products, created, year, issued>>

\* the caller formats the value it was given
GenReturn(p) ==
  /\ gpc[p] = "got"
  /\ issued' = issued \cup
       {[caller |-> p,
         k |-> Cardinality({e \in issued : e.caller = p}) + 1,
         kind |-> gval[p].kind,
         name |-> gval[p].name,
         value |-> gval[p].value,
         number |-> GenFormatted(gval[p].kind, gval[p].yr, gval[p].value)]}
  /\ gpc' = [gpc EXCEPT ![p] = "idle"]
  /\ UNCHANGED <<ppc, pval, chits, payments, customers, counters, rates, orders, products, created, year, gval>>

\* the calendar year changes
NewYear ==
  /\ year + 1 \in Years
  /\ year' = year + 1
  /\ UNCHANGED <<ppc, pval, chits, payments, customers, counters, rates, orders, products, created, gpc,
                 gval, issued>>

\* ------------------------------------- POST /chits/:id/payment, interleaved
\* The handler of POST /chits/:id/payment as the steps between its awaits,
\* run by concurrent requests: Chit.findById and the checks that follow it,
\* generateReceiptNumber, payment.save(), updateCustomerChitStats and
\* chit.save().  Each request keeps the chit document it read; chit.save()
\* writes the paths the handler changed on that document ($set) and the
\* entries it pushed on paymentHistory ($push); a push puts no version
\* condition on the write.
NoRequest ==
  [id |-> 0, amount |-> 0, rate |-> 0, receiptNum |-> None, snapshot |-> None,
   local |-> None, code |-> 0]

\* the checks between findById and the first write
PaymentChecks(id, installmentNumber, rate) ==
  IF id \notin DOMAIN chits THEN "notFound"
  ELSE IF chits[id].status # "active" THEN "notActive"
  ELSE IF ~Truthy(rate) \/ Get(rate) <= 0 THEN "rateRequired"
  ELSE IF InstallmentMismatch(installmentNumber, chits[id].paidInstallments + 1)
    THEN "installmentMismatch"
  ELSE "pass"

PayFind(p, id, installmentNumber, amount, rate, receiptNumber) ==
  /\ ppc[p] = "idle"
  /\ IF PaymentChecks(id, installmentNumber, rate) = "pass"
       THEN /\ pval' = [pval EXCEPT
                          ![p] = [id |-> id, amount |-> amount, rate |-> Get(rate),
                                  receiptNum |-> receiptNumber,
                                  snapshot |-> Some(chits[id]),
                                  local |-> Some(chits[id]), code |-> 0]]
            /\ ppc' = [ppc EXCEPT
                         ![p] = IF IsSome(receiptNumber) THEN "savePayment"
                                                         ELSE "receipt"]
       ELSE /\ pval' = [pval EXCEPT
                          ![p].id = id,
                          ![p].code = PaymentCode(PaymentChecks(id, installmentNumber,
                                                                rate))]
            /\ ppc' = [ppc EXCEPT ![p] = "answered"]
  /\ UNCHANGED <<chits, payments, customers, counters, rates, orders, products, created, year, gpc,
                 gval, issued>>

PayReceipt(p) ==
  /\ ppc[p] = "receipt"
  /\ CounterValue(ReceiptCounterName(year)) < MaxSeq
  /\ counters' = CountersAfter(ReceiptCounterName(year))
  /\ pval' = [pval EXCEPT
                ![p].receiptNum =
                   Some(FormatReceiptNumber(year, counters'[ReceiptCounterName(year)]))]
  /\ ppc' = [ppc EXCEPT ![p] = "savePayment"]
  /\ UNCHANGED <<chits, payments, customers, rates, orders, products, created, year, gpc, gval, issued>>

\* the payment document the request builds from the chit it read
PayDoc(v) ==
  NewChitPayment(v.id, Get(v.snapshot).customerId,
                 Get(v.snapshot).paidInstallments + 1, v.amount, v.rate,
                 GoldWeight(v.amount, v.rate), Get(v.receiptNum))

\* payment.save(), then the changes to the chit document in memory
PaySavePayment(p) ==
  /\ ppc[p] = "savePayment"
  /\ IF \/ ~ChitPaymentValid(PayDoc(pval[p]))
        \/ ChitPaymentPreSaveFails(PayDoc(pval[p]))
        \/ ReceiptTaken(Get(pval[p].receiptNum))
       THEN /\ pval' = [pval EXCEPT ![p].code = 500]
            /\ ppc' = [ppc EXCEPT ![p] = "answered"]
            /\ UNCHANGED payments
       ELSE /\ Cardinality(payments) < MaxPayments
            /\ payments' = payments \cup {ChitPaymentPreSave(PayDoc(pval[p]))}
            /\ pval' = [pval EXCEPT
                          ![p].local =
                             Some(ChitAfterPayment(Get(pval[p].snapshot), pval[p].amount,
                                                   pval[p].rate,
                                                   GoldWeight(pval[p].amount, pval[p].rate),
                                                   Get(pval[p].receiptNum)))]
            /\ ppc' = [ppc EXCEPT ![p] = "customer"]
  /\ UNCHANGED <<chits, customers, counters, rates, orders, products, created, year, gpc, gval, issued>>

PayCustomer(p) ==
  /\ ppc[p] = "customer"
  /\ customers' = UpdateCustomerChitStats(customers, Get(pval[p].local).customerId,
                    PaymentCustomerInc(Get(pval[p].local), pval[p].amount,
                                       GoldWeight(pval[p].amount, pval[p].rate)))
  /\ ppc' = [ppc EXCEPT ![p] = "saveChit"]
  /\ UNCHANGED <<chits, payments, counters, rates, orders, products, created, year, gpc, gval, issued,
                 pval>>

SaveMerged(stored, snapshot, doc) ==
  [f \in DOMAIN stored |->
     IF f = "paymentHistory"
       THEN stored[f] \o SubSeq(doc[f], Len(snapshot[f]) + 1, Len(doc[f]))
     ELSE IF f \in {"paidInstallments", "totalWeight"}
       THEN stored[f] + (doc[f] - snapshot[f])
     ELSE IF doc[f] # snapshot[f] THEN doc[f]
     ELSE stored[f]]
\* what the write of chit.save() leaves in the collection: every path whose
\* value differs from the one read is set, and the pushed history entries
\* are appended to the stored array
SaveModified(stored, snapshot, doc) ==
  [f \in DOMAIN stored |->
     IF f = "paymentHistory"
       THEN stored[f] \o SubSeq(doc[f], Len(snapshot[f]) + 1, Len(doc[f]))
     ELSE IF doc[f] # snapshot[f] THEN doc[f]
     ELSE stored[f]]

PaySaveChit(p) ==
  /\ ppc[p] = "saveChit"
  /\ IF ~ChitValid(Get(pval[p].local)) \/ pval[p].id \notin DOMAIN chits
       THEN /\ pval' = [pval EXCEPT ![p].code = 500]
            /\ UNCHANGED chits
       ELSE /\ chits' = [chits EXCEPT
                           ![pval[p].id] =
                              SaveModified(@, Get(pval[p].snapshot),
                                           ChitPreSave(Get(pval[p].local)))]
            /\ pval' = [pval EXCEPT ![p].code = 200]
  /\ ppc' = [ppc EXCEPT ![p] = "answered"]
  /\ UNCHANGED <<payments, customers, counters, rates, orders, products, created, year, gpc, gval,
                 issued>>

\* ------------------- POST /chits/:id/settle and settle-purchase, interleaved
\* The two settlement handlers as the steps between their awaits, run by
\* concurrent requests: Chit.findById with the checks and the changes to the
\* document in memory, chit.save(), updateCustomerChitStats.  The requests use
\* the same bookkeeping as the payment requests: snapshot is the chit read,
\* local the chit as the handler changed it.
SettleChecks(id, settlementType, settlementGoldRate) ==
  IF id \notin DOMAIN chits THEN "notFound"
  ELSE IF chits[id].status # "completed" THEN "notCompleted"
  ELSE IF IsGoldType(settlementType) /\ ~Truthy(settlementGoldRate) THEN "rateRequired"
  ELSE "pass"
SettleFind(p, id, settlementType, amountField, settlementDate, settlementGoldRate) ==
  /\ ppc[p] = "idle"
  /\ IF SettleChecks(id, settlementType, settlementGoldRate) = "pass"
       THEN /\ pval' = [pval EXCEPT
                          ![p] = [NoRequest EXCEPT
                                    !.id = id,
                                    !.snapshot = Some(chits[id]),
                                    !.local = Some(SettleDoc(chits[id], settlementType,
                                                             amountField, settlementDate,
                                                             settlementGoldRate))]]
            /\ ppc' = [ppc EXCEPT ![p] = "settleSave"]
       ELSE /\ pval' = [pval EXCEPT
                          ![p].id = id,
                          ![p].code = SettleCode(SettleChecks(id, settlementType,
                                                              settlementGoldRate))]
            /\ ppc' = [ppc EXCEPT ![p] = "answered"]
  /\ UNCHANGED <<chits, payments, customers, counters, rates, orders, products, created,
                 year, gpc, gval, issued>>
PurchaseFind(p, id, purchaseAmount, invoiceNumber, settlementDate, settlementGoldRate) ==
  /\ ppc[p] = "idle"
  /\ IF SettleChecks(id, "purchase_settlement", settlementGoldRate) = "pass"
       THEN /\ pval' = [pval EXCEPT
                          ![p] = [NoRequest EXCEPT
                                    !.id = id,
                                    !.snapshot = Some(chits[id]),
                                    !.local = Some(PurchaseDoc(chits[id], purchaseAmount,
                                                               invoiceNumber, settlementDate,
                                                               settlementGoldRate))]]
            /\ ppc' = [ppc EXCEPT ![p] = "settleSave"]
       ELSE /\ pval' = [pval EXCEPT
                          ![p].id = id,
                          ![p].code = SettleCode(SettleChecks(id, "purchase_settlement",
                                                              settlementGoldRate))]
            /\ ppc' = [ppc EXCEPT ![p] = "answered"]
  /\ UNCHANGED <<chits, payments, customers, counters, rates, orders, products, created,
                 year, gpc, gval, issued>>

\* chit.save() of either handler
SettleSave(p) ==
  /\ ppc[p] = "settleSave"
  /\ IF ~ChitValid(Get(pval[p].local)) \/ pval[p].id \notin DOMAIN chits
       THEN /\ pval' = [pval EXCEPT ![p].code = 500]
            /\ ppc' = [ppc EXCEPT ![p] = "answered"]
            /\ UNCHANGED chits
       ELSE /\ chits' = [chits EXCEPT
                           ![pval[p].id] =
                              SaveModified(@, Get(pval[p].snapshot),
                                           ChitPreSave(Get(pval[p].local)))]
            /\ ppc' = [ppc EXCEPT ![p] = "settleCustomer"]
            /\ UNCHANGED pval
  /\ UNCHANGED <<payments, customers, counters, rates, orders, products, created, year,
                 gpc, gval, issued>>

\* updateCustomerChitStats and the response; the $inc of settle-purchase is
\* the one of settle for the type purchase_settlement
SettleCustomer(p) ==
  /\ ppc[p] = "settleCustomer"
  /\ customers' = UpdateCustomerChitStats(customers, Get(pval[p].local).customerId,
                    SettleCustomerInc(Get(Get(pval[p].local).settlementType)))
  /\ pval' = [pval EXCEPT ![p].code = 200]
  /\ ppc' = [ppc EXCEPT ![p] = "answered"]
  /\ UNCHANGED <<chits, payments, counters, rates, orders, products, created, year,
                 gpc, gval, issued>>

\* ------------------------------------------ DELETE /chits/:id, interleaved
\* The delete handler as the steps between its awaits: Chit.findById,
\* ChitPayment.deleteMany, updateCustomerChitStats, Chit.findByIdAndDelete.
\* snapshot is the chit the request read.
DeleteFind(p, id) ==
  /\ ppc[p] = "idle"
  /\ IF DeleteOutcome(id) = "ok"
       THEN /\ pval' = [pval EXCEPT
                          ![p] = [NoRequest EXCEPT !.id = id, !.snapshot = Some(chits[id])]]
            /\ ppc' = [ppc EXCEPT ![p] = "deletePayments"]
       ELSE /\ pval' = [pval EXCEPT ![p].id = id, ![p].code = DeleteCode(DeleteOutcome(id))]
            /\ ppc' = [ppc EXCEPT ![p] = "answered"]
  /\ UNCHANGED <<chits, payments, customers, counters, rates, orders, products, created,
                 year, gpc, gval, issued>>
\* ChitPayment.deleteMany({ chitId: chit._id })
DeletePayments(p) ==
  /\ ppc[p] = "deletePayments"
  /\ payments' = {x \in payments : x.chitId # pval[p].id}
  /\ ppc' = [ppc EXCEPT ![p] = "deleteCustomer"]
  /\ UNCHANGED <<chits, customers, counters, rates, orders, products, created, year,
                 gpc, gval, issued, pval>>
DeleteCustomer(p) ==
  /\ ppc[p] = "deleteCustomer"
  /\ customers' = UpdateCustomerChitStats(customers, Get(pval[p].snapshot).customerId,
                                          DeleteCustomerInc(Get(pval[p].snapshot)))
  /\ ppc' = [ppc EXCEPT ![p] = "deleteChit"]
  /\ UNCHANGED <<chits, payments, counters, rates, orders, products, created, year,
                 gpc, gval, issued, pval>>
\* Chit.findByIdAndDelete(req.params.id) and the response
DeleteDocument(p) ==
  /\ ppc[p] = "deleteChit"
  /\ chits' = [c \in DOMAIN chits \ {pval[p].id} |-> chits[c]]
  /\ pval' = [pval EXCEPT ![p].code = 200]
  /\ ppc' = [ppc EXCEPT ![p] = "answered"]
  /\ UNCHANGED <<payments, customers, counters, rates, orders, products, created, year,
                 gpc, gval, issued>>

\* ------------------------------------------------------------ POST /orders
\* The order route as far as a payment by chit settlement goes.  The paths of
\* the order that the chit-settlement calculation does not read are left
\* out: customer, items, the totals, goldExchange and the top-level
\* chitSettlement.  The route's stock update names the path stock, which the
\* Product schema does not declare, so it changes no product.  An amount of
\* the order is held in 1/WeightUnit currency units, like the product of a
\* weight and a rate.
OrderDefaultGoldRate == 6000

\* payment.chitSettlement as the client sends it: every path optional; an
\* empty chitId is held as an absent one
ChitSettlementData(chitId, accumulatedGold, currentGoldRate) ==
  [chitId |-> chitId, accumulatedGold |-> accumulatedGold,
   currentGoldRate |-> currentGoldRate]
OrderPayment(method, amount, chitSettlement) ==
  [method |-> method, amount |-> amount, chitSettlement |-> chitSettlement]

\* chitData.currentGoldRate || req.body.chitSettlement?.goldPricePerGram || 6000
OrderGoldRate(currentGoldRate, goldPricePerGram) ==
  IF Truthy(currentGoldRate) THEN Get(currentGoldRate)
  ELSE IF Truthy(goldPricePerGram) THEN Get(goldPricePerGram)
  ELSE OrderDefaultGoldRate
\* (chitData.accumulatedGold || 0) * goldRate
OrderGoldValue(accumulatedGold, goldRate) ==
  (IF IsSome(accumulatedGold) THEN Get(accumulatedGold) ELSE 0) * goldRate
\* the difference stored as it comes out
OrderExtraAmountUnclamped(amount, goldValue) == Money(amount) - goldValue
\* extraAmount > 0 ? extraAmount : 0, extraAmount being payment.amount - goldValue
OrderExtraAmount(amount, goldValue) ==
  IF Money(amount) - goldValue > 0 THEN Money(amount) - goldValue ELSE 0

\* processedPaymentMethods: a Chit Settlement payment without a chitSettlement
\* object is given one; any other payment loses the object
ProcessedPayment(payment, goldPricePerGram) ==
  IF payment.method = "Chit Settlement"
    THEN IF IsSome(payment.chitSettlement)
           THEN payment
           ELSE [payment EXCEPT !.chitSettlement =
                   Some(ChitSettlementData(None, Some(0),
                          Some(OrderGoldRate(None, goldPricePerGram))))]
    ELSE [payment EXCEPT !.chitSettlement = None]

\* processedPaymentMethodsWithCalculations, as the Order schema keeps it
\* (remainingAmount is not a path of the schema)
PaymentWithCalculations(payment, goldPricePerGram) ==
  IF payment.method = "Chit Settlement" /\ IsSome(payment.chitSettlement)
    THEN LET chitData == Get(payment.chitSettlement)
             goldRate == OrderGoldRate(chitData.currentGoldRate, goldPricePerGram)
             goldValue == OrderGoldValue(chitData.accumulatedGold, goldRate)
         IN  [method |-> payment.method, amount |-> payment.amount,
              chitSettlement |->
                Some([chitId |-> chitData.chitId,
                      accumulatedGold |-> chitData.accumulatedGold,
                      currentGoldRate |-> goldRate,
                      goldValue |-> goldValue,
                      extraAmount |-> OrderExtraAmount(payment.amount, goldValue)])]
    ELSE payment

OrderMethods == {"Cash", "Card", "UPI", "Bank Transfer", "Gold Exchange", "Chit Settlement"}
\* paymentMethods of the Order schema: method in the enum, amount min 0
OrderValid(order) ==
  \A i \in DOMAIN order.paymentMethods :
    /\ order.paymentMethods[i].method \in OrderMethods
    /\ order.paymentMethods[i].amount >= 0

OrderCounterName(prefix) == <<prefix>>
\* getNextFormattedNumber('ORD', '-') and then getNextFormattedNumber('INV', '/')
OrderCounters ==
  [n \in DOMAIN counters \cup {OrderCounterName("ORD"), OrderCounterName("INV")} |->
     IF n \in {OrderCounterName("ORD"), OrderCounterName("INV")}
       THEN IncValue(CounterValue(n)) ELSE counters[n]]
OrderDoc(body) ==
  [orderId |-> FormatOrderNumber("ORD", "-", year, OrderCounters[OrderCounterName("ORD")]),
   invoiceNumber |-> FormatOrderNumber("INV", "/", year, OrderCounters[OrderCounterName("INV")]),
   paymentMethods |->
     [i \in DOMAIN body.paymentMethods |->
        PaymentWithCalculations(
          ProcessedPayment(body.paymentMethods[i], body.goldPricePerGram),
          body.goldPricePerGram)]]
OrderOutcome(body) ==
  IF ~OrderValid(OrderDoc(body)) THEN "validationFailed" ELSE "ok"
OrderCode(outcome) == IF outcome = "ok" THEN 200 ELSE 400

\* router.post('/') of the order routes: both numbers are drawn before the
\* order is validated
CreateOrder(body) ==
  /\ CounterValue(OrderCounterName("ORD")) < MaxSeq
  /\ counters' = OrderCounters
  /\ orders' = IF OrderOutcome(body) = "ok" THEN orders \cup {OrderDoc(body)} ELSE orders
  /\ UNCHANGED <<chits, payments, customers, rates, products, created, year,
                 gpc, gval, issued, ppc, pval>>

\* -------------------------------------------------------- products, rates
\* A product as far as the rate board reads it: metal, purity, weight,
\* wastage, makingCharges, stonePrice and price.  Weights are whole grams and
\* wastage is a whole percentage.
ProductMetals == {"gold", "silver"}
ProductValid(p) ==
  /\ p.metal \in ProductMetals
  /\ p.makingCharges >= 0
  /\ p.wastage >= 0
  /\ p.stonePrice >= 0
  /\ p.price >= 0
SkuCounterName(yr) == <<"SKU", "GEN", yr>>
\* `${prefix}-${yyyymm}-${serial}`, in January, for a category without letters
FormatSku(yr, seq) ==
  <<"G", "E", "N", "-">> \o ToDigits(yr) \o <<"0", "1", "-">>
    \o PadStart(ToDigits(seq), ChitSerialWidth)
ProductDoc(body) ==
  [metal |-> body.metal, purity |-> body.purity, weight |-> body.weight,
   wastage |-> body.wastage, makingCharges |-> body.makingCharges,
   stonePrice |-> body.stonePrice, price |-> body.price]
ProductOutcome(body) == IF ProductValid(ProductDoc(body)) THEN "ok" ELSE "saveFailed"
ProductCode(outcome) == IF outcome = "ok" THEN 200 ELSE 500
\* router.post('/') of the product routes: the SKU is drawn before the save
CreateProduct(body) ==
  LET name == SkuCounterName(year)
      sku == FormatSku(year, CountersAfter(name)[name])
  IN  /\ CounterValue(name) < MaxSeq
      /\ counters' = CountersAfter(name)
      /\ products' = IF ProductOutcome(body) = "ok"
                       THEN (sku :> ProductDoc(body)) @@ products
                       ELSE products
      /\ UNCHANGED <<chits, payments, customers, rates, orders, created, year,
                     gpc, gval, issued, ppc, pval>>

\* the price without the wastage share
ComputePriceNoWastage(rate, weight, wastage, makingCharges, stonePrice) == weight * rate + makingCharges + stonePrice
\* computePriceForProduct: Math.round(w * rate + (w * rate * wastage) / 100
\*                                    + makingCharges + stonePrice)
ComputePriceForProduct(rate, weight, wastage, makingCharges, stonePrice) ==
  (2 * (100 * weight * rate + weight * rate * wastage
          + 100 * (makingCharges + stonePrice)) + 100) \div 200

ValidPurities == {"24K", "22K", "18K"}
\* metal === 'silver' ? null : validPurities.includes(purity) ? purity : '22K'
NormalizedPurity(metal, purity) ==
  IF metal = "silver" THEN None
  ELSE IF IsSome(purity) /\ Get(purity) \in ValidPurities THEN purity
  ELSE Some("22K")
RateDoc(metal, purity, price) == [metal |-> metal, purity |-> purity, price |-> price]
\* Rate.findOneAndUpdate(query, update, { upsert: true }): one document that
\* matches the query is updated; when none matches, one is inserted
RatesAfterUpsert(metal, purity, price) ==
  LET found == {r \in rates : r.metal = metal /\ r.purity = purity} IN
  IF found = {}
    THEN rates \cup {RateDoc(metal, purity, price)}
    ELSE (rates \ {CHOOSE r \in found : TRUE}) \cup {RateDoc(metal, purity, price)}
\* productFilter: { metal } and, for a purity that is not null, { purity }
ProductMatches(p, metal, purity) ==
  /\ p.metal = metal
  /\ IsSome(purity) => p.purity = Get(purity)
RateOutcome(price) == IF IsSome(price) THEN "ok" ELSE "invalidPrice"
RateCode(outcome) == IF outcome = "ok" THEN 200 ELSE 400
\* router.put('/:metal'): price is the body's price when it is a number
UpdateRate(metal, purity, price) ==
  /\ IF RateOutcome(price) = "ok"
       THEN /\ rates' = RatesAfterUpsert(metal, NormalizedPurity(metal, purity), Get(price))
            /\ products' =
                 [sku \in DOMAIN products |->
                    IF ProductMatches(products[sku], metal, NormalizedPurity(metal, purity))
                      THEN [products[sku] EXCEPT !.price =
                              ComputePriceForProduct(Get(price), products[sku].weight,
                                products[sku].wastage, products[sku].makingCharges,
                                products[sku].stonePrice)]
                      ELSE products[sku]]
       ELSE UNCHANGED <<rates, products>>
  /\ UNCHANGED <<chits, payments, customers, counters, orders, created, year,
                 gpc, gval, issued, ppc, pval>>

\* router.post('/seed'): $setOnInsert with upsert, for each base rate in turn
BaseRates ==
  {RateDoc("gold", Some("24K"), 0), RateDoc("gold", Some("22K"), 0),
   RateDoc("gold", Some("18K"), 0), RateDoc("silver", None, 0)}
SeedRates ==
  /\ rates' = rates \cup
       {b \in BaseRates : ~\E r \in rates : r.metal = b.metal /\ r.purity = b.purity}
  /\ UNCHANGED <<chits, payments, customers, counters, orders, products, created, year,
                 gpc, gval, issued, ppc, pval>>

\* -------------------------------------------------- customer update routes
\* The customer routes as far as the name and the phone number go; email,
\* address and the tax numbers are left out.
Digits == {DigitChar(d) : d \in 0..9}
IsDigit(ch) == ch \in Digits
\* phone.replace(/\D/g, '')
CleanedPhone(phone) == SelectSeq(phone, IsDigit)
\* { $regex: pattern } on a stored phone number: the pattern occurs in it
PhoneRegexMatches(stored, pattern) ==
  \E i \in 1..(Len(stored) + 1) :
    /\ i + Len(pattern) - 1 <= Len(stored)
    /\ SubSeq(stored, i, i + Len(pattern) - 1) = pattern

\* router.put('/:id') of the customer routes: the phone is stored as sent
CustomerUpdateOutcome(id, name, phone) ==
  IF name = "" \/ phone = << >> THEN "missingFields"
  ELSE IF \E c \in DOMAIN customers \ {id} : customers[c].phone = phone
    THEN "duplicatePhone"
  ELSE IF id \notin DOMAIN customers THEN "notFound"
  ELSE "ok"
CustomerUpdateCode(outcome) ==
  IF outcome = "ok" THEN 200 ELSE IF outcome = "notFound" THEN 404 ELSE 400
UpdateCustomer(id, name, phone) ==
  /\ customers' = IF CustomerUpdateOutcome(id, name, phone) = "ok"
                    THEN [customers EXCEPT ![id].name = name, ![id].phone = phone]
                    ELSE customers
  /\ UNCHANGED <<chits, payments, counters, rates, orders, products, created, year,
                 gpc, gval, issued, ppc, pval>>

\* router.put('/enhanced/:id'): the phone is stored without its non-digits,
\* and the chits of a chit customer are given the new name and phone
EnhancedUpdateOutcome(id, name, phone) ==
  IF name = "" \/ phone = << >> THEN "missingFields"
  ELSE IF \E c \in DOMAIN customers \ {id} :
            PhoneRegexMatches(customers[c].phone, CleanedPhone(phone))
    THEN "duplicatePhone"
  ELSE IF id \notin DOMAIN customers THEN "notFound"
  ELSE "ok"
\* Chit.updateMany({ customerId }, { $set: { customerName, customerPhone } })
ChitsWithContact(customerId, name, phone) ==
  [i \in DOMAIN chits |->
     IF chits[i].customerId = customerId
       THEN [chits[i] EXCEPT !.customerName = name, !.customerPhone = phone]
       ELSE chits[i]]
UpdateCustomerEnhanced(id, name, phone) ==
  /\ IF EnhancedUpdateOutcome(id, name, phone) = "ok"
       THEN /\ customers' = [customers EXCEPT ![id].name = name,
                                              ![id].phone = CleanedPhone(phone)]
            /\ chits' = IF customers'[id].chitCustomer
                          THEN ChitsWithContact(id, name, CleanedPhone(phone))
                          ELSE chits
       ELSE UNCHANGED <<customers, chits>>
  /\ UNCHANGED <<payments, counters, rates, orders, products, created, year,
                 gpc, gval, issued, ppc, pval>>

\* router.put('/:id') of the chit routes with a body of customerName and
\* customerPhone, each optional and not empty: the chit is updated and then
\* every chit of its customer
ContactUpdateOutcome(id) == IF id \notin DOMAIN chits THEN "notFound" ELSE "ok"
UpdateChitContact(id, customerName, customerPhone) ==
  /\ IF ContactUpdateOutcome(id) = "ok" /\ (IsSome(customerName) \/ IsSome(customerPhone))
       THEN LET chit == chits[id] IN
            chits' = ChitsWithContact(chit.customerId,
                       IF IsSome(customerName) THEN Get(customerName) ELSE chit.customerName,
                       IF IsSome(customerPhone) THEN Get(customerPhone) ELSE chit.customerPhone)
       ELSE UNCHANGED chits
  /\ UNCHANGED <<payments, customers, counters, rates, orders, products, created, year,
                 gpc, gval, issued, ppc, pval>>

\* ---------------------------------------------------------- specifications
Init ==
  /\ chits = << >>
  /\ payments = {}
  /\ customers = [c \in CustomerIds \cup OtherCustomerIds |->
                    [name |-> FirstName[c], phone |-> FirstPhone[c],
                     chitCustomer |-> FALSE, chitDetails |-> ZeroDetails]]
  /\ counters = << >>
  /\ rates = {}
  /\ orders = {}
  /\ products = << >>
  /\ created = 0
  /\ year = 2025
  /\ gpc = [p \in Callers |-> "idle"]
  /\ gval = [p \in Callers |-> [kind |-> "receipt", name |-> <<"receipt">>, yr |-> 0,
                                value |-> 0]]
  /\ issued = {}
  /\ ppc = [p \in Callers |-> "idle"]
  /\ pval = [p \in Callers |-> NoRequest]

\* Request bodies.  Each set holds the bodies the clients of the model send.
RandomReceipts == {<<"C", "H", "I", "T", "-", "1">>}
UpdateDocs ==
  {UpdateDoc(Some("settled"), None, None),
   UpdateDoc(Some("active"), None, None),
   UpdateDoc(Some("defaulted"), None, None),
   UpdateDoc(None, Some(0), None),
   UpdateDoc(None, Some(1), None),
   UpdateDoc(None, None, Some(1))}
StatusInputs == Statuses \cup {"paused"}
ClientInstallmentAmounts == {None, Some(7)}
StartDateInputs == {None} \cup {Some(d) : d \in StartDates}
InstallmentInputs == {None, Some(0), Some(1), Some(2)}
SuppliedReceipt == FormatReceiptNumber(2025, 1)
PaymentBody(amount, rate, receipt) ==
  [amount |-> amount, currentGoldRate |-> rate, receiptNumber |-> receipt]
PaymentBodies ==
  {PaymentBody(2, None, None),
   PaymentBody(2, Some(1), None),
   PaymentBody(2, Some(2), None),
   PaymentBody(2, Some(1), Some(SuppliedReceipt))}
DirectPaymentBodies ==
  {PaymentBody(0, Some(1), None),
   PaymentBody(2, Some(1), None),
   PaymentBody(2, Some(2), Some(SuppliedReceipt))}
SettleBody(type, amount, date, rate) ==
  [settlementType |-> type, settlementAmount |-> amount, settlementDate |-> date,
   settlementGoldRate |-> rate]
SettleBodies ==
  {SettleBody("cash", Some(1), None, None),
   SettleBody("gold", Some(1), None, Some(2)),
   SettleBody("gold", None, None, None),
   SettleBody("partial_gold", None, Some(SuppliedDate), Some(1)),
   SettleBody("gold", Some(1), None, Some(0)),
   SettleBody("partial_gold", Some(1), None, Some(0 - 1))}
PurchaseBody(amount, invoice, date) ==
  [purchaseAmount |-> amount, invoiceNumber |-> invoice, settlementDate |-> date]
PurchaseBodies ==
  {PurchaseBody(Some(1), Some("INV/2025/0001"), None),
   PurchaseBody(None, Some("INV/2025/0001"), Some(SuppliedDate))}

OrderBody(paymentMethods, goldPricePerGram) ==
  [paymentMethods |-> paymentMethods, goldPricePerGram |-> goldPricePerGram]
OrderBodies ==
  {OrderBody(<<OrderPayment("Chit Settlement", 1,
                 Some(ChitSettlementData(Some(1), Some(3), Some(2))))>>, None),
   OrderBody(<<OrderPayment("Cash", 4, None),
               OrderPayment("Chit Settlement", 5,
                 Some(ChitSettlementData(Some(1), Some(3), Some(2))))>>, None),
   OrderBody(<<OrderPayment("Chit Settlement", 5,
                 Some(ChitSettlementData(Some(1), None, None)))>>, Some(1)),
   OrderBody(<<OrderPayment("Chit Settlement", 5, None)>>, None),
   OrderBody(<<OrderPayment("Chit Settlement", 1,
                 Some(ChitSettlementData(Some(1), Some(3), Some(0))))>>, None),
   OrderBody(<<OrderPayment("Cash", 4,
                 Some(ChitSettlementData(Some(1), Some(3), Some(2))))>>, None),
   OrderBody(<<OrderPayment("Chit Settlement", -1,
                 Some(ChitSettlementData(Some(1), Some(3), Some(2))))>>, None)}

ProductBody(metal, purity, weight, wastage, makingCharges, stonePrice, price) ==
  [metal |-> metal, purity |-> purity, weight |-> weight, wastage |-> wastage,
   makingCharges |-> makingCharges, stonePrice |-> stonePrice, price |-> price]
ProductBodies ==
  {ProductBody("gold", "22K", 1, 10, 0, 0, 0),
   ProductBody("gold", "18K", 3, 0, 2, 1, 7),
   ProductBody("gold", "", 1, 0, 0, 0, 9),
   ProductBody("silver", "", 3, 50, 0, 0, 1),
   ProductBody("silver", "22K", 1, 0, 0, 0, -1)}
RatePrices == {None, Some(1), Some(5)}
RatePurities == {None, Some("22K"), Some("18K"), Some("21K")}

CustomerIdInputs == CustomerIds \cup OtherCustomerIds \cup {"cust3"}
NameInputs == {"", "Asha", "Mira"}
PhoneInputs == {<< >>, <<"9", "8">>, <<"9", "-", "9">>, <<"7">>}

Create ==
  \E customerId \in CustomerIds, start \in StartDateInputs,
     chitAmount \in ChitAmounts, n \in InstallmentCounts,
     inst \in ClientInstallmentAmounts :
    CreateChit(customerId, customers[customerId].name, customers[customerId].phone,
               start, chitAmount, n, inst)
Payment ==
  \E id \in ChitIds, inst \in InstallmentInputs, b \in PaymentBodies :
    RecordPayment(id, inst, b.amount, b.currentGoldRate, b.receiptNumber)
DirectPayment ==
  \E id \in ChitIds, b \in DirectPaymentBodies, random \in RandomReceipts :
    RecordPaymentDirect(id, b.amount, b.currentGoldRate, b.receiptNumber, random)
Update == \E id \in ChitIds, u \in UpdateDocs : UpdateChit(id, u)
Status == \E id \in ChitIds, status \in StatusInputs : UpdateStatus(id, status)
Delete == \E id \in ChitIds : DeleteChit(id)
Settle ==
  \E id \in ChitIds, b \in SettleBodies :
    SettleChit(id, b.settlementType, b.settlementAmount, b.settlementDate,
               b.settlementGoldRate)
SettleForPurchase ==
  \E id \in ChitIds, b \in PurchaseBodies :
    SettlePurchase(id, b.purchaseAmount, b.invoiceNumber, b.settlementDate, None)

Next ==
  \/ Create
  \/ Payment
  \/ DirectPayment
  \/ Update
  \/ Status
  \/ Delete
  \/ Settle
  \/ SettleForPurchase

Spec == Init /\ [][Next]_vars

\* a chit's life without corrections: created, paid into through either
\* payment endpoint, deleted
PayDeleteNext ==
  \/ Create
  \/ Payment
  \/ DirectPayment
  \/ Delete

SpecPayDelete == Init /\ [][PayDeleteNext]_vars

\* payment requests whose steps interleave, on chits created beforehand
FindChit ==
  \E p \in Callers, id \in ChitIds, inst \in InstallmentInputs, b \in PaymentBodies :
    PayFind(p, id, inst, b.amount, b.currentGoldRate, b.receiptNumber)
ConcNext ==
  \/ Create
  \/ FindChit
  \/ \E p \in Callers : PayReceipt(p)
  \/ \E p \in Callers : PaySavePayment(p)
  \/ \E p \in Callers : PayCustomer(p)
  \/ \E p \in Callers : PaySaveChit(p)

SpecConc == Init /\ [][ConcNext]_vars

GenNext ==
  \/ \E p \in Callers, kind \in GenKinds : GenCall(p, kind)
  \/ \E p \in Callers : GenUpsert(p)
  \/ \E p \in Callers : GenReturn(p)
  \/ NewYear

SpecGen == Init /\ [][GenNext]_vars

PlaceOrder == \E body \in OrderBodies : CreateOrder(body)
\* orders placed at the counter while chits are opened and paid into
OrderNext ==
  \/ Create
  \/ Payment
  \/ PlaceOrder

SpecOrders == Init /\ [][OrderNext]_vars

AddProduct == \E body \in ProductBodies : CreateProduct(body)
SetRate ==
  \E metal \in ProductMetals, purity \in RatePurities, price \in RatePrices :
    UpdateRate(metal, purity, price)
\* the rate board and the catalogue it reprices
RateNext ==
  \/ AddProduct
  \/ SetRate
  \/ SeedRates

SpecRates == Init /\ [][RateNext]_vars

EditCustomer ==
  \E id \in CustomerIdInputs, name \in NameInputs, phone \in PhoneInputs :
    UpdateCustomer(id, name, phone)
EditCustomerEnhanced ==
  \E id \in CustomerIdInputs, name \in NameInputs, phone \in PhoneInputs :
    UpdateCustomerEnhanced(id, name, phone)
EditChitContact ==
  \E id \in ChitIds, name \in {None, Some("Mira")}, phone \in {None, Some(<<"9", "8">>)} :
    UpdateChitContact(id, name, phone)
\* customers edited while they open chits
ContactNext ==
  \/ Create
  \/ EditCustomer
  \/ EditCustomerEnhanced
  \/ EditChitContact

SpecContact == Init /\ [][ContactNext]_vars

\* a chit's life through the operations that maintain the customer counters
LifecycleNext ==
  \/ Create
  \/ Payment
  \/ Status
  \/ Settle
  \/ Delete

SpecLifecycle == Init /\ [][LifecycleNext]_vars

FindToSettle ==
  \E p \in Callers, id \in ChitIds, b \in SettleBodies :
    SettleFind(p, id, b.settlementType, b.settlementAmount, b.settlementDate,
               b.settlementGoldRate)
FindToSettlePurchase ==
  \E p \in Callers, id \in ChitIds, b \in PurchaseBodies :
    PurchaseFind(p, id, b.purchaseAmount, b.invoiceNumber, b.settlementDate, None)
\* settlement requests whose steps interleave, on chits created and paid up
\* beforehand
SettleConcNext ==
  \/ Create
  \/ Payment
  \/ FindToSettle
  \/ FindToSettlePurchase
  \/ \E p \in Callers : SettleSave(p)
  \/ \E p \in Callers : SettleCustomer(p)

SpecSettleConc == Init /\ [][SettleConcNext]_vars

FindToDelete == \E p \in Callers, id \in ChitIds : DeleteFind(p, id)
\* a delete request whose steps interleave with those of payment requests
DeleteConcNext ==
  \/ Create
  \/ FindChit
  \/ \E p \in Callers : PayReceipt(p)
  \/ \E p \in Callers : PaySavePayment(p)
  \/ \E p \in Callers : PayCustomer(p)
  \/ \E p \in Callers : PaySaveChit(p)
  \/ FindToDelete
  \/ \E p \in Callers : DeletePayments(p)
  \/ \E p \in Callers : DeleteCustomer(p)
  \/ \E p \in Callers : DeleteDocument(p)

SpecDeleteConc == Init /\ [][DeleteConcNext]_vars

\* ------------------------------------------------------------- properties
\* C1: after a successful POST /chits/:id/payment the chit's
\* remainingInstallments plus its paidInstallments equals its
\* totalInstallments.
C1_RemainingPlusPaid ==
  [][\A id \in ChitIds :
       (/\ id \in DOMAIN chits
        /\ payments' # payments
        /\ \E inst \in InstallmentInputs, b \in PaymentBodies :
             /\ PaymentOutcome(id, inst, b.amount, b.currentGoldRate,
                               b.receiptNumber) = "ok"
             /\ RecordPayment(id, inst, b.amount, b.currentGoldRate, b.receiptNumber))
       => chits'[id].remainingInstallments + chits'[id].paidInstallments
            = chits'[id].totalInstallments]_vars
C1_Witness ==
  \E id \in DOMAIN chits :
    /\ Len(chits[id].paymentHistory) = 1
    /\ chits[id].paidInstallments = 1
    /\ chits[id].remainingInstallments = 1
    /\ chits[id].totalInstallments = 2

\* C2: a payment against a chit whose paidInstallments equals its
\* totalInstallments is rejected: no ChitPayment is created and neither the
\* chit nor the customer changes, however the chit came to that state and
\* whichever payment endpoint receives the request.
C2_FullyPaidRejected ==
  [][\A id \in ChitIds :
       (/\ id \in DOMAIN chits
        /\ chits[id].paidInstallments = chits[id].totalInstallments
        /\ \/ \E inst \in InstallmentInputs, b \in PaymentBodies :
                RecordPayment(id, inst, b.amount, b.currentGoldRate, b.receiptNumber)
           \/ \E b \in DirectPaymentBodies, random \in RandomReceipts :
                RecordPaymentDirect(id, b.amount, b.currentGoldRate, b.receiptNumber,
                                    random))
       => /\ payments' = payments
          /\ chits' = chits
          /\ customers' = customers]_vars

\* C3: every payment's gold weight is its amount divided by its gold rate,
\* and a chit's accumulated totalWeight is the sum of the gold weights of the
\* payments recorded against it.
C3_GoldWeight ==
  /\ \A p \in payments : p.goldWeight * p.goldRate = p.amount * WeightUnit
  /\ \A id \in DOMAIN chits :
       /\ chits[id].totalWeight = SumWeights(chits[id].paymentHistory)
       /\ \A i \in 1..Len(chits[id].paymentHistory) :
            chits[id].paymentHistory[i].goldWeight * chits[id].paymentHistory[i].goldRate
              = chits[id].paymentHistory[i].amount * WeightUnit
C3_Witness ==
  \E id \in DOMAIN chits :
    /\ Len(chits[id].paymentHistory) = 2
    /\ chits[id].paymentHistory[1].goldRate # chits[id].paymentHistory[2].goldRate
    /\ chits[id].totalWeight
         = GoldWeight(chits[id].paymentHistory[1].amount, chits[id].paymentHistory[1].goldRate)
           + GoldWeight(chits[id].paymentHistory[2].amount, chits[id].paymentHistory[2].goldRate)
\* C4: POST /chits/:id/settle and POST /chits/:id/settle-purchase against a
\* chit whose status is not completed are answered 400, and the step leaves
\* the chit (its status and settlement fields) and the customers' counters
\* unchanged.
C4_SettleNeedsCompleted ==
  /\ [](\A id \in DOMAIN chits :
          chits[id].status # "completed"
          => /\ \A b \in SettleBodies :
                  SettleCode(SettleOutcome(id, b.settlementType, b.settlementAmount,
                                           b.settlementDate, b.settlementGoldRate))
                    = 400
             /\ \A b \in PurchaseBodies :
                  PurchaseCode(PurchaseOutcome(id, b.purchaseAmount, b.invoiceNumber,
                                               b.settlementDate, None)) = 400)
  /\ [][\A id \in ChitIds :
          (/\ id \in DOMAIN chits
           /\ chits[id].status # "completed"
           /\ \/ \E b \in SettleBodies :
                   SettleChit(id, b.settlementType, b.settlementAmount,
                              b.settlementDate, b.settlementGoldRate)
              \/ \E b \in PurchaseBodies :
                   SettlePurchase(id, b.purchaseAmount, b.invoiceNumber,
                                  b.settlementDate, None))
          => /\ chits' = chits
             /\ customers' = customers]_vars
C4_Witness ==
  \E id \in DOMAIN chits :
    /\ chits[id].status = "settled"
    /\ IsSome(chits[id].settlementType)
    /\ \E b \in SettleBodies :
         SettleOutcome(id, b.settlementType, b.settlementAmount, b.settlementDate,
                       b.settlementGoldRate) = "notCompleted"
    /\ \E b \in PurchaseBodies :
         PurchaseOutcome(id, b.purchaseAmount, b.invoiceNumber, b.settlementDate,
                         None) = "notCompleted"

\* C5: a gold or partial_gold settlement of a completed chit stores
\* settlementAmount = accumulated totalWeight * settlementGoldRate, whatever
\* the accumulated weight (zero included) and whatever settlementAmount the
\* request carries.
C5_GoldAmountDerived ==
  [][\A id \in ChitIds, b \in SettleBodies :
       (/\ id \in DOMAIN chits
        /\ chits[id].status = "completed"
        /\ IsGoldType(b.settlementType)
        /\ SettleOutcome(id, b.settlementType, b.settlementAmount, b.settlementDate,
                         b.settlementGoldRate) = "ok"
        /\ SettleChit(id, b.settlementType, b.settlementAmount, b.settlementDate,
                      b.settlementGoldRate))
       => chits'[id].settlementAmount
            = Some(chits[id].totalWeight * Get(b.settlementGoldRate))]_vars

\* C6: a chit created by POST /chits is active with paidInstallments 0,
\* remainingInstallments = totalInstallments, accumulated weight 0,
\* installmentAmount = round(chitAmount / totalInstallments) whatever
\* installmentAmount the request carries, and nextDueDate one calendar month
\* after startDate (same day of month, or the last day of a shorter month).
C6_CreatedChit ==
  [][\A customerId \in CustomerIds, start \in StartDates, chitAmount \in ChitAmounts,
        n \in InstallmentCounts, inst \in ClientInstallmentAmounts :
       (/\ CreateOutcome(customerId, customers[customerId].name,
                          customers[customerId].phone, Some(start), chitAmount, n) = "ok"
        /\ CreateChit(customerId, customers[customerId].name, customers[customerId].phone,
                      Some(start), chitAmount, n, inst))
       => LET c == chits'[created'] IN
          /\ c.status = "active"
          /\ c.paidInstallments = 0
          /\ c.remainingInstallments = n
          /\ c.totalInstallments = n
          /\ c.totalWeight = 0
          /\ c.installmentAmount = MathRoundDiv(chitAmount, n)
          /\ c.nextDueDate.m = start.m + 1
          /\ c.nextDueDate.d = IF start.d <= MonthLen(start.m + 1)
                                 THEN start.d ELSE MonthLen(start.m + 1)]_vars

\* C7: a payment request whose installmentNumber is supplied and differs from
\* paidInstallments + 1 (0 and already-paid numbers included) changes no
\* ChitPayment, no chit and no customer counter.
C7_InstallmentNumberChecked ==
  [][\A id \in ChitIds, inst \in InstallmentInputs, b \in PaymentBodies :
       (/\ id \in DOMAIN chits
        /\ IsSome(inst)
        /\ Get(inst) # chits[id].paidInstallments + 1
        /\ RecordPayment(id, inst, b.amount, b.currentGoldRate, b.receiptNumber))
       => /\ payments' = payments
          /\ chits' = chits
          /\ customers' = customers]_vars

C10_SettledFromCompleted ==
  [][\A id \in ChitIds :
       (/\ id \in DOMAIN chits
        /\ id \in DOMAIN chits'
        /\ chits[id].status # "settled"
        /\ chits'[id].status = "settled")
       => chits[id].status = "completed"]_vars

\* C9: under every interleaving of concurrent callers, two calls of the
\* sequence generator for the same counter name never return the same value,
\* so no two generated receipt numbers (or order ids) are equal.
C9_GeneratorUnique ==
  \A e1 \in issued, e2 \in issued :
    (e1 # e2 /\ e1.name = e2.name)
    => /\ e1.value # e2.value
       /\ e1.number # e2.number
C9_Witness ==
  \E e1 \in issued, e2 \in issued :
    /\ e1.caller # e2.caller
    /\ e1.kind = "receipt"
    /\ e1.name = e2.name
    /\ e1.value = 1
    /\ e2.value = 2

\* C11: a ChitPayment is only ever created for a chit that exists and whose
\* status is active at that moment, through either payment endpoint.
C11_PaymentOnlyForActive ==
  [][\A p \in payments' \ payments :
       /\ p.chitId \in DOMAIN chits
       /\ chits[p.chitId].status = "active"]_vars

\* C12: under sequential payment requests through either endpoint, the
\* ChitPayment records of a chit carry the installment numbers
\* 1..paidInstallments exactly once each: no gaps and no duplicates.
C12_OnePaymentPerInstallment ==
  \A id \in DOMAIN chits :
    \A n \in 1..(MaxPayments + 1) :
      Cardinality({p \in payments : p.chitId = id /\ p.installmentNumber = n})
        = IF n <= chits[id].paidInstallments THEN 1 ELSE 0

\* C14: POST /chits/:id/payment with a supplied receipt number that already
\* belongs to a payment is answered 400, and the step creates no payment and
\* leaves the chit and the customers' counters unchanged.
C14_DuplicateReceiptConflict ==
  /\ [](\A id \in DOMAIN chits, inst \in InstallmentInputs, b \in PaymentBodies :
          (/\ IsSome(b.receiptNumber)
           /\ ReceiptTaken(Get(b.receiptNumber))
           /\ PaymentOutcome(id, inst, b.amount, b.currentGoldRate, b.receiptNumber)
                = "paymentSaveFailed")
          => PaymentCode(PaymentOutcome(id, inst, b.amount, b.currentGoldRate,
                                        b.receiptNumber)) = 400)
  /\ [][\A id \in ChitIds, inst \in InstallmentInputs, b \in PaymentBodies :
          (/\ id \in DOMAIN chits
           /\ IsSome(b.receiptNumber)
           /\ ReceiptTaken(Get(b.receiptNumber))
           /\ RecordPayment(id, inst, b.amount, b.currentGoldRate, b.receiptNumber))
          => /\ payments' = payments
             /\ chits' = chits
             /\ customers' = customers]_vars

\* C15: a successful payment raises paidInstallments by exactly 1, appends
\* exactly one entry to paymentHistory and keeps the earlier entries, adds
\* the payment's gold weight to totalWeight, sets currentGoldRate to the
\* payment's rate, and moves nextDueDate one calendar month on (same day of
\* month, or the last day of a shorter month).
C15_PaymentEffect ==
  [][\A id \in ChitIds, inst \in InstallmentInputs, b \in PaymentBodies :
       (/\ id \in DOMAIN chits
        /\ payments' # payments
        /\ PaymentOutcome(id, inst, b.amount, b.currentGoldRate, b.receiptNumber) = "ok"
        /\ RecordPayment(id, inst, b.amount, b.currentGoldRate, b.receiptNumber))
       => LET old == chits[id]
              new == chits'[id]
          IN
          /\ new.paidInstallments = old.paidInstallments + 1
          /\ Len(new.paymentHistory) = Len(old.paymentHistory) + 1
          /\ SubSeq(new.paymentHistory, 1, Len(old.paymentHistory)) = old.paymentHistory
          /\ new.totalWeight
               = old.totalWeight + new.paymentHistory[Len(new.paymentHistory)].goldWeight
          /\ new.paymentHistory[Len(new.paymentHistory)].goldWeight
               * Get(b.currentGoldRate) = b.amount * WeightUnit
          /\ new.currentGoldRate = Get(b.currentGoldRate)
          /\ new.nextDueDate.m = old.nextDueDate.m + 1
          /\ new.nextDueDate.d
               = IF old.nextDueDate.d <= MonthLen(old.nextDueDate.m + 1)
                   THEN old.nextDueDate.d ELSE MonthLen(old.nextDueDate.m + 1)]_vars

\* C16: a successful payment that makes paidInstallments reach
\* totalInstallments turns the chit from active to completed in that step;
\* every other successful payment leaves it active.
C16_CompletedOnLastPayment ==
  [][\A id \in ChitIds :
       (/\ id \in DOMAIN chits
        /\ payments' # payments
        /\ \E inst \in InstallmentInputs, b \in PaymentBodies :
             /\ PaymentOutcome(id, inst, b.amount, b.currentGoldRate,
                               b.receiptNumber) = "ok"
             /\ RecordPayment(id, inst, b.amount, b.currentGoldRate, b.receiptNumber))
       => /\ chits[id].status = "active"
          /\ chits'[id].status
               = IF chits'[id].paidInstallments = chits'[id].totalInstallments
                   THEN "completed" ELSE "active"]_vars
C16_Witness ==
  \E id \in DOMAIN chits :
    /\ chits[id].status = "completed"
    /\ Len(chits[id].paymentHistory) = 2
    /\ chits[id].paidInstallments = 2
    /\ chits[id].totalInstallments = 2

\* C17: in every reachable state every stored chit has
\* remainingInstallments = totalInstallments - paidInstallments.
C17_RemainingInvariant ==
  \A id \in DOMAIN chits :
    chits[id].remainingInstallments
      = chits[id].totalInstallments - chits[id].paidInstallments

\* C18: in every reachable state a chit whose settlementType,
\* settlementAmount or settlementDate is set has status settled.
C18_SettlementFieldsOnlySettled ==
  \A id \in DOMAIN chits :
    (\/ IsSome(chits[id].settlementType)
     \/ IsSome(chits[id].settlementAmount)
     \/ IsSome(chits[id].settlementDate))
    => chits[id].status = "settled"

C20_DefaultedCancelledOnlyByStatusUpdate ==
  [][\A id \in ChitIds :
       /\ \A status \in {"defaulted", "cancelled"} :
            (/\ id \in DOMAIN chits
             /\ UpdateStatus(id, status))
            => /\ chits' = [chits EXCEPT ![id].status = status]
               /\ payments' = payments
       /\ (/\ id \in DOMAIN chits
           /\ id \in DOMAIN chits'
           /\ chits'[id].status \in {"defaulted", "cancelled"}
           /\ chits'[id].status # chits[id].status)
          => \/ UpdateStatus(id, chits'[id].status)
             \/ \E u \in UpdateDocs :
                  /\ u.status = Some(chits'[id].status)
                  /\ UpdateChit(id, u)]_vars
C20_Witness ==
  \E id \in DOMAIN chits :
    /\ chits[id].status = "cancelled"
    /\ Len(chits[id].paymentHistory) = 1
    /\ chits[id].paidInstallments = 1
    /\ chits[id].remainingInstallments = 1
    /\ chits[id].totalWeight = SumWeights(chits[id].paymentHistory)
    /\ Cardinality({p \in payments : p.chitId = id}) = 1

\* C13: two payment requests against the same active chit that both read
\* paidInstallments = N and both end 200 leave two ChitPayment records with
\* installment number N + 1, while the chit's paidInstallments is N + 1 and
\* its totalWeight is the weight read plus the gold weight of only one of
\* the two payments.
C13_LostUpdate ==
  \A p \in Callers, q \in Callers :
    (/\ p # q
     /\ ppc[p] = "answered" /\ pval[p].code = 200
     /\ ppc[q] = "answered" /\ pval[q].code = 200
     /\ pval[p].id = pval[q].id
     /\ Get(pval[p].snapshot).paidInstallments = Get(pval[q].snapshot).paidInstallments)
    => LET id == pval[p].id
           n == Get(pval[p].snapshot).paidInstallments
       IN
       /\ Cardinality({r \in payments : r.chitId = id /\ r.installmentNumber = n + 1}) = 2
       /\ chits[id].paidInstallments = n + 1
       /\ chits[id].totalWeight
            \in {Get(pval[p].snapshot).totalWeight + GoldWeight(pval[p].amount, pval[p].rate),
                 Get(pval[q].snapshot).totalWeight + GoldWeight(pval[q].amount, pval[q].rate)}
C13_Witness ==
  /\ ppc["a"] = "answered" /\ pval["a"].code = 200
  /\ ppc["b"] = "answered" /\ pval["b"].code = 200
  /\ pval["a"].id = pval["b"].id
  /\ Get(pval["a"].snapshot).paidInstallments = 0
  /\ Get(pval["b"].snapshot).paidInstallments = 0
  /\ Cardinality({r \in payments : r.chitId = pval["a"].id /\ r.installmentNumber = 1}) = 2
  /\ chits[pval["a"].id].paidInstallments = 1
  /\ chits[pval["a"].id].totalWeight = GoldWeight(pval["b"].amount, pval["b"].rate)
  /\ GoldWeight(pval["a"].amount, pval["a"].rate)
       # GoldWeight(pval["b"].amount, pval["b"].rate)

\* C21: an order created with a Chit Settlement payment stores, for that
\* payment, goldValue = accumulated gold weight * gold rate and
\* extraAmount = max(0, payment amount - goldValue), never negative; creating
\* the order changes no chit and no ChitPayment.
C21_OrderChitSettlement ==
  [][\A body \in OrderBodies :
       (orders' # orders /\ CreateOrder(body)) =>
         /\ chits' = chits
         /\ payments' = payments
         /\ \A o \in orders' \ orders : \A i \in DOMAIN o.paymentMethods :
              o.paymentMethods[i].method = "Chit Settlement" =>
                LET amount == Money(o.paymentMethods[i].amount)
                    cs == Get(o.paymentMethods[i].chitSettlement)
                    weight == IF IsSome(cs.accumulatedGold)
                                THEN Get(cs.accumulatedGold) ELSE 0
                IN  /\ cs.goldValue = weight * cs.currentGoldRate
                    /\ cs.extraAmount >= 0
                    /\ cs.extraAmount =
                         (IF amount - cs.goldValue > 0 THEN amount - cs.goldValue ELSE 0)]_vars
\* an order paid by chit settlement whose amount is below the gold value,
\* placed while the chit it names exists
C21_Witness ==
  \E o \in orders : \E i \in DOMAIN o.paymentMethods :
    /\ o.paymentMethods[i].method = "Chit Settlement"
    /\ LET cs == Get(o.paymentMethods[i].chitSettlement) IN
         /\ cs.goldValue > Money(o.paymentMethods[i].amount)
         /\ cs.extraAmount = 0
         /\ IsSome(cs.chitId) /\ Get(cs.chitId) \in DOMAIN chits

\* C22: after a rate update for a metal (and purity) every product of that
\* metal and purity is priced weight*price + weight*price*wastage/100 +
\* makingCharges + stonePrice at the new rate, rounded to the nearest whole
\* number (halves up), every other product keeps its price, and the board
\* holds at most one rate per (metal, purity), silver under purity null and
\* gold only under a valid purity, 22K standing in for a missing or invalid one.
C22_RateUpdate ==
  /\ [](\A r1, r2 \in rates :
          (r1.metal = r2.metal /\ r1.purity = r2.purity) => r1 = r2)
  /\ [](\A r \in rates :
          IF r.metal = "silver" THEN r.purity = None
          ELSE IsSome(r.purity) /\ Get(r.purity) \in {"24K", "22K", "18K"})
  /\ [][\A metal \in ProductMetals, purity \in RatePurities, price \in RatePrices :
          (IsSome(price) /\ UpdateRate(metal, purity, price)) =>
            LET stored == IF metal = "silver" THEN None
                          ELSE IF purity \in {Some("24K"), Some("22K"), Some("18K")}
                            THEN purity ELSE Some("22K")
            IN
            /\ [metal |-> metal, purity |-> stored, price |-> Get(price)] \in rates'
            /\ DOMAIN products' = DOMAIN products
            /\ \A sku \in DOMAIN products :
                 LET p == products'[sku]
                     exact100 == 100 * p.weight * Get(price)
                                   + p.weight * Get(price) * p.wastage
                                   + 100 * (p.makingCharges + p.stonePrice)
                 IN  IF p.metal = metal /\ (metal = "silver" \/ Some(p.purity) = stored)
                       THEN /\ 100 * p.price - 50 <= exact100
                            /\ exact100 < 100 * p.price + 50
                            /\ [p EXCEPT !.price = 0] = [products[sku] EXCEPT !.price = 0]
                       ELSE p = products[sku]]_vars
\* a rate update with an invalid gold purity has repriced a 22K product whose
\* exact price ends in a half, and left another product's price alone
C22_Witness ==
  /\ [metal |-> "gold", purity |-> Some("22K"), price |-> 5] \in rates
  /\ \E sku \in DOMAIN products :
       /\ products[sku].purity = "22K" /\ products[sku].wastage = 10
       /\ products[sku].price = 6
  /\ \E sku \in DOMAIN products :
       products[sku].purity # "22K" /\ products[sku].price = 9

\* C23: the sequence generator, called for a name without a counter, creates
\* the counter and returns 1; every later call for the name returns the value
\* returned before plus 1, so the values handed out for a name are 1, 2, ...
\* up to its counter; a call for one name leaves every other name's counter
\* as it was.
C23_GeneratorSequence ==
  /\ [](\A n \in DOMAIN counters :
          {e.value : e \in {i \in issued : i.name = n}}
            \cup {gval[p].value : p \in {q \in Callers : gpc[q] = "got" /\ gval[q].name = n}}
          = 1..counters[n])
  /\ [][\A p \in Callers :
          (gpc[p] # "got" /\ gpc'[p] = "got") =>
            LET n == gval'[p].name IN
            /\ gval'[p].value = (IF n \in DOMAIN counters THEN counters[n] ELSE 0) + 1
            /\ DOMAIN counters' = DOMAIN counters \cup {n}
            /\ counters'[n] = gval'[p].value
            /\ \A m \in DOMAIN counters \ {n} : counters'[m] = counters[m]]_vars
\* two names have been served: one twice, with 1 and then 2 returned, the
\* other once
C23_Witness ==
  \E n, m \in DOMAIN counters :
    /\ n # m
    /\ counters[n] = 2 /\ counters[m] = 1
    /\ \E e1, e2 \in issued :
         /\ e1.name = n /\ e2.name = n
         /\ e1.value = 1 /\ e2.value = 2
    /\ \E e \in issued : e.name = m /\ e.value = 1

\* C24: after an edit of a customer through either customer update endpoint,
\* every chit of that customer carries the customer's current name and phone.
C24_ChitContactInSync ==
  [][\A id \in CustomerIdInputs, name \in NameInputs, phone \in PhoneInputs :
       (/\ customers' # customers
        /\ \/ UpdateCustomer(id, name, phone)
           \/ UpdateCustomerEnhanced(id, name, phone))
       => \A i \in DOMAIN chits' :
            chits'[i].customerId = id =>
              /\ chits'[i].customerName = customers'[id].name
              /\ chits'[i].customerPhone = customers'[id].phone]_vars

\* C25: a settle request of type gold or partial_gold that carries no
\* positive settlementGoldRate, made against a completed chit, is answered
\* with 400 and leaves the chit as it was: completed, no settlement field
\* written.
C25_GoldRateRequired ==
  /\ [](\A id \in DOMAIN chits, b \in SettleBodies :
          (/\ chits[id].status = "completed"
           /\ b.settlementType \in {"gold", "partial_gold"}
           /\ ~(IsSome(b.settlementGoldRate) /\ Get(b.settlementGoldRate) > 0))
          => SettleCode(SettleOutcome(id, b.settlementType, b.settlementAmount,
                                      b.settlementDate, b.settlementGoldRate)) = 400)
  /\ [][\A id \in DOMAIN chits, b \in SettleBodies :
          (/\ chits[id].status = "completed"
           /\ b.settlementType \in {"gold", "partial_gold"}
           /\ ~(IsSome(b.settlementGoldRate) /\ Get(b.settlementGoldRate) > 0)
           /\ SettleChit(id, b.settlementType, b.settlementAmount, b.settlementDate,
                         b.settlementGoldRate))
          => chits' = chits]_vars

\* C26: a POST /chits/:id/payment that is answered with an error has had no
\* effect: no ChitPayment was inserted, the chit is as it was and the
\* customer's counters are as they were.
C26_PaymentAllOrNothing ==
  [][\A id \in ChitIds, inst \in InstallmentInputs, b \in PaymentBodies :
       (/\ PaymentCode(PaymentOutcome(id, inst, b.amount, b.currentGoldRate,
                                      b.receiptNumber)) # 200
        /\ RecordPayment(id, inst, b.amount, b.currentGoldRate, b.receiptNumber))
       => /\ payments' = payments
          /\ chits' = chits
          /\ customers' = customers]_vars

\* C27: after any sequence of chit create, payment, status-update, settle and
\* delete operations each customer's counters agree with the customer's
\* chits: activeChits, completedChits, settledChits and defaultedChits are
\* the numbers of the customer's chits in that status and totalChits is the
\* number of the customer's chits.
C27_CountersMatchChits ==
  \A c \in DOMAIN customers :
    LET own == {i \in DOMAIN chits : chits[i].customerId = c}
        in(status) == Cardinality({i \in own : chits[i].status = status})
    IN  /\ customers[c].chitDetails.totalChits = Cardinality(own)
        /\ customers[c].chitDetails.activeChits = in("active")
        /\ customers[c].chitDetails.completedChits = in("completed")
        /\ customers[c].chitDetails.settledChits = in("settled")
        /\ customers[c].chitDetails.defaultedChits = in("defaulted")

\* C28: of the settlement requests (settle or settle-purchase) made
\* concurrently against one completed chit at most one succeeds, and the
\* customer's settledChits counter goes up by exactly one for that chit.
C28_OneSettlementPerChit ==
  \A id \in DOMAIN chits :
    /\ Cardinality({p \in Callers :
                      /\ ppc[p] = "answered" /\ pval[p].code = 200
                      /\ pval[p].id = id
                      /\ IsSome(pval[p].local)
                      /\ Get(pval[p].local).status = "settled"}) <= 1
    /\ customers[chits[id].customerId].chitDetails.settledChits
         <= Cardinality({i \in DOMAIN chits : chits[i].customerId = chits[id].customerId})

\* C29: in every reachable state, a chit deletion interleaved with a payment
\* on the same chit included, every ChitPayment refers to a chit that exists,
\* and no step puts back a chit that was deleted (a chit id that appears is
\* a newly created one).
C29_NoOrphanPayments ==
  /\ [](\A x \in payments : x.chitId \in DOMAIN chits)
  /\ [][\A id \in DOMAIN chits' \ DOMAIN chits : id > created]_vars

\* C30: for every chit the derived totalPaid, paidInstallments *
\* installmentAmount, equals the sum of the amounts of the entries of its
\* payment history, and equals chitAmount when the chit is completed.
C30_TotalPaidIsHistorySum ==
  \A id \in DOMAIN chits :
    LET history == chits[id].paymentHistory
        sum[k \in 0..Len(history)] ==
          IF k = 0 THEN 0 ELSE sum[k - 1] + history[k].amount
    IN  /\ TotalPaid(chits[id]) = sum[Len(history)]
        /\ chits[id].status = "completed" => TotalPaid(chits[id]) = chits[id].chitAmount

=============================================================================
